---- MODULE Spec2Model ----
(***************************************************************************)
(* Model of the MedSearch retrieval orchestration: the websocket search    *)
(* handlers (backend/app/api/search.py), the LangGraph workflow            *)
(* (backend/app/agents/workflow.py), the three specialist agents, the      *)
(* synthetic dataset service, the synthesis step, and the score fusion of  *)
(* ElasticsearchService.hybrid_search (specification SpecFusion).          *)
(*                                                                         *)
(* Scores are integers: a raw engine score s is kept as 1000*s, a          *)
(* relevance score r as 10000*r, a confidence score c as 100*c.            *)
(***************************************************************************)
EXTENDS Integers, Sequences, FiniteSets, TLC

VARIABLES
    esSvc,        \* elasticsearch_service._es_service: "none" | "set"
    redisSvc,     \* redis_service._redis_service: "none" | "set"
    vertexSvc,    \* vertex_ai_service._vertex_ai_service: "none" | "set"
    embCache,     \* Redis embedding:<hash(text)> entries, by query text
    resCache,     \* Redis search:<hash(query)> entry of the session's query
    db,           \* the row of search_sessions for the session, or NoRow
    conns,        \* websocket connections that may be opened for the session
    queries,      \* query texts in use (session query, AI rewritings)
    maxResults,   \* WorkflowConfig.max_results_per_agent
    outage,       \* TRUE: Elasticsearch, Redis and Vertex AI are unreachable
    pc,           \* position of each connection's endpoint coroutine
    wf,           \* AgentState of the execution each connection runs
    emitted,      \* events each connection's handlers have sent, in order
    cancels,      \* search_cancel messages each connection has processed
    fusion,       \* one call of ElasticsearchService.hybrid_search, or NoFusion
    call          \* one call of a function of the agents package, or NoCall

vars == <<esSvc, redisSvc, vertexSvc, embCache, resCache, db, conns, queries,
          maxResults, outage, pc, wf, emitted, cancels, fusion, call>>

-----------------------------------------------------------------------------
(* Bounds of the model *)

MaxResultsBound == 2
MaxLiveHits == 1
MaxCancels == 1
MaxHits == 2
MaxSize == 2

-----------------------------------------------------------------------------
(* Optional values: None is the empty sequence, Some(x) wraps x *)

None == <<>>
Some(x) == <<x>>
IsNone(o) == o = <<>>
OrEmpty(o) == IF o = <<>> THEN <<>> ELSE o[1]

Min(a, b) == IF a <= b THEN a ELSE b
Max(a, b) == IF a >= b THEN a ELSE b

RECURSIVE SumSeq(_)
SumSeq(s) == IF s = <<>> THEN 0 ELSE s[1] + SumSeq(Tail(s))

Take(s, n) == SubSeq(s, 1, Min(n, Len(s)))

-----------------------------------------------------------------------------
(* Query texts.  A text is described by what the code looks at: the        *)
(* keyword classes of detect_intent_heuristic it contains, the sub-intents *)
(* (side effects, geriatrics) the drug agent and the synthesis step detect *)
(* in it, and which entries of the synthetic datasets share a word with    *)
(* it.                                                                     *)

AllQueries ==
    { [kw |-> {}, se |-> FALSE, ger |-> FALSE, pm |-> {}, dm |-> {}],
      [kw |-> {"trial", "drug"}, se |-> FALSE, ger |-> TRUE, pm |-> {2, 4}, dm |-> {3}],
      [kw |-> {"research", "drug"}, se |-> TRUE, ger |-> FALSE, pm |-> {1, 3, 5}, dm |-> {}],
      [kw |-> {"drug"}, se |-> TRUE, ger |-> TRUE, pm |-> {}, dm |-> {1, 2, 3}] }

Intents == {"research", "clinical_trial", "drug_info", "general"}

\* a faulty classifier: the drug keywords are looked at before the research
\* keywords
detect_intent_heuristic_drug_first(q) ==
    IF "trial" \in q.kw THEN "clinical_trial"
    ELSE IF "drug" \in q.kw THEN "drug_info"
    ELSE IF "research" \in q.kw THEN "research"
    ELSE "general"

\* query_analyzer.detect_intent_heuristic
detect_intent_heuristic(q) ==
    IF "trial" \in q.kw THEN "clinical_trial"
    ELSE IF "research" \in q.kw THEN "research"
    ELSE IF "drug" \in q.kw THEN "drug_info"
    ELSE "general"

-----------------------------------------------------------------------------
(* mock_data_service.MockDataService *)

NumPubmedSamples == 5
NumDrugSamples == 3
PubmedAlways == 2
DrugAlways == 1

\* the filtering loop shared by the get_*_results methods: sample i is kept
\* when it matches the query or fewer than `always` samples were kept so far;
\* a kept sample gets _score 0.9 - 0.05 * (number kept before it)
RECURSIVE MockFilter(_, _, _, _, _)
MockFilter(i, n, matches, always, kept) ==
    IF i > n THEN kept
    ELSE IF i \in matches \/ Len(kept) < always
         THEN MockFilter(i + 1, n, matches, always,
                         Append(kept, [id |-> i, origin |-> "mock",
                                       score |-> 900 - 50 * Len(kept)]))
         ELSE MockFilter(i + 1, n, matches, always, kept)

get_pubmed_results(q, max_results) ==
    Take(MockFilter(1, NumPubmedSamples, q.pm, PubmedAlways, <<>>), max_results)

get_drug_results(q, max_results) ==
    Take(MockFilter(1, NumDrugSamples, q.dm, DrugAlways, <<>>), max_results)

-----------------------------------------------------------------------------
(* Outcomes of the backend calls one agent invocation makes.               *)

LiveScores == {300, 900}

\* ElasticsearchService.hybrid_search as the agents see it: it raises, or
\* returns at most `size` fused hits (none when the index is missing)
LiveHits(n, s) == [i \in 1..n |-> [id |-> i, origin |-> "live", score |-> s]]

SearchOutcomes(size) ==
    {[raised |-> TRUE, hits |-> <<>>]} \cup
    {[raised |-> FALSE, hits |-> LiveHits(n, s)] :
        n \in 0..Min(size, MaxLiveHits), s \in LiveScores}

\* esUp, redisUp, vertexUp: the backend answers when its service singleton
\* is first built; redisOk, redisSetOk: the cache get / setex succeeds;
\* embedOk: generate_embedding returns a vector
AgentEnv(size) ==
    [esUp : BOOLEAN, redisUp : BOOLEAN, vertexUp : BOOLEAN, redisOk : BOOLEAN,
     redisSetOk : BOOLEAN, embedOk : BOOLEAN, search : SearchOutcomes(size)]

\* a faulty conversion: the scaled score is not clamped
ToSearchResult_unclamped(r, sourceType) ==
    [id |-> r.id, origin |-> r.origin, source_type |-> sourceType,
     relevance_score |-> r.score]

\* the conversion loop of the agents: relevance_score = min(_score / 10, 1.0)
ToSearchResult(r, sourceType) ==
    [id |-> r.id, origin |-> r.origin, source_type |-> sourceType,
     relevance_score |-> Min(r.score, 10000)]

ConvertAll(rs, sourceType) ==
    [i \in 1..Len(rs) |-> ToSearchResult(rs[i], sourceType)]

-----------------------------------------------------------------------------
(* The specialist agents.  g is the shared state an invocation reads and   *)
(* writes: the three service singletons and the embedding cache.  The      *)
(* result carries the returned records and, as history, the stages of the  *)
(* degradation chain that ran, whether an exception reached the agent's    *)
(* outermost handler, and the vector handed to the search.                 *)

\* get_elasticsearch_service / get_redis_service / get_vertex_ai_service:
\* the singleton is assigned before it is connected, so a failed first call
\* leaves it set
SvcCallOk(svc, up) == svc = "set" \/ up

\* _classify_intent and the expansion clauses of execute_drug_agent
Expanded(q) == q.se \/ q.ger

\* a faulty test: fewer hits than two count as none
no_live_results_short(search) == search.raised \/ Len(search.hits) < 2

\* the `except` around hybrid_search and the `if not results:` after it
no_live_results(search) == search.raised \/ search.hits = <<>>

AgentOutcome(recs, stages, failed, vec, g) ==
    [records |-> recs, stages |-> stages, failed |-> failed, vec |-> vec, g |-> g]

\* RedisService.embedding_ttl, in seconds
embedding_ttl == 86400

\* what the embedding step of an agent did: the vector it hands to the
\* search, the calls of generate_embedding with their task type, and the cache
EmbedResult(raised, vec, calls, task_type, ttl, cache) ==
    [raised |-> raised, vec |-> vec, calls |-> calls, task_type |-> task_type,
     ttl |-> ttl, embCache |-> cache]

\* a faulty embedding step: the cache is not consulted, the vector is
\* generated and stored on every call
embed_query_uncached(key, text, redis_available, e, g) ==
    IF ~e.embedOk THEN EmbedResult(TRUE, "none", 1, "RETRIEVAL_QUERY", 0, g.embCache)
    ELSE IF redis_available /\ e.redisSetOk
         THEN EmbedResult(FALSE, text, 1, "RETRIEVAL_QUERY", embedding_ttl,
                          [g.embCache EXCEPT ![key] = text])
    ELSE EmbedResult(FALSE, text, 1, "RETRIEVAL_QUERY", 0, g.embCache)

\* the `if query_embedding is None:` block of the agents: get_embedding
\* under the key of the query (an error counts as a miss), on a miss
\* generate_embedding(text, task_type="RETRIEVAL_QUERY") and, when the cache
\* service was obtained, set_embedding under the same key (errors swallowed)
embed_query(key, text, redis_available, e, g) ==
    LET cached == IF redis_available /\ e.redisOk THEN g.embCache[key] ELSE "none" IN
    IF cached # "none" THEN EmbedResult(FALSE, cached, 0, "none", 0, g.embCache)
    ELSE IF ~e.embedOk
         THEN EmbedResult(TRUE, "none", 1, "RETRIEVAL_QUERY", 0, g.embCache)
    ELSE IF redis_available /\ e.redisSetOk
         THEN EmbedResult(FALSE, text, 1, "RETRIEVAL_QUERY", embedding_ttl,
                          [g.embCache EXCEPT ![key] = text])
    ELSE EmbedResult(FALSE, text, 1, "RETRIEVAL_QUERY", 0, g.embCache)

\* research_agent.execute_research_agent
execute_research_agent(q, max_results, e, g) ==
    LET es_available == SvcCallOk(g.esSvc, e.esUp)
        redis_available == SvcCallOk(g.redisSvc, e.redisUp)
        vertex_ok == SvcCallOk(g.vertexSvc, e.vertexUp)
        g1 == [g EXCEPT !.esSvc = "set", !.redisSvc = "set", !.vertexSvc = "set"]
        mock == ConvertAll(get_pubmed_results(q, max_results), "pubmed")
        emb == embed_query(q, "plain", redis_available, e, g1)
        force_mock == emb.raised
        vec == emb.vec
        g2 == [g1 EXCEPT !.embCache = emb.embCache]
        live == ConvertAll(e.search.hits, "pubmed")
    IN  IF ~vertex_ok THEN AgentOutcome(mock, <<"mock">>, TRUE, "none", g1)
        ELSE IF ~es_available THEN AgentOutcome(mock, <<"mock">>, FALSE, "none", g1)
        ELSE IF force_mock THEN AgentOutcome(mock, <<"mock">>, FALSE, "none", g1)
        ELSE IF no_live_results(e.search)
             THEN AgentOutcome(mock, <<"live", "mock">>, FALSE, vec, g2)
        ELSE AgentOutcome(live, <<"live">>, FALSE, vec, g2)

\* drug_agent: expanded_query_text, the query with the clauses of the
\* sub-intents _classify_intent detects; "plain" stands for the query text
\* itself, "expanded" for the query text with at least one clause added
expanded_query_text(q) == IF Expanded(q) THEN "expanded" ELSE "plain"

\* drug_agent.execute_drug_agent
execute_drug_agent(q, max_results, e, g) ==
    LET es_available == SvcCallOk(g.esSvc, e.esUp)
        redis_available == SvcCallOk(g.redisSvc, e.redisUp)
        vertex_ok == SvcCallOk(g.vertexSvc, e.vertexUp)
        g1 == [g EXCEPT !.esSvc = "set", !.redisSvc = "set", !.vertexSvc = "set"]
        mock == ConvertAll(get_drug_results(q, max_results), "fda_drug")
        emb == embed_query(q, expanded_query_text(q), redis_available, e, g1)
        force_mock == emb.raised
        vec == emb.vec
        g2 == [g1 EXCEPT !.embCache = emb.embCache]
        live == ConvertAll(e.search.hits, "fda_drug")
    IN  IF ~vertex_ok THEN AgentOutcome(mock, <<"mock">>, TRUE, "none", g1)
        ELSE IF ~es_available THEN AgentOutcome(mock, <<"mock">>, FALSE, "none", g1)
        ELSE IF force_mock THEN AgentOutcome(mock, <<"mock">>, FALSE, "none", g1)
        ELSE IF no_live_results(e.search)
             THEN AgentOutcome(mock, <<"live", "mock">>, FALSE, vec, g2)
        ELSE AgentOutcome(live, <<"live">>, FALSE, vec, g2)

\* clinical_agent.execute_clinical_agent: one try block, every exception
\* ends in `return []`
execute_clinical_agent(q, max_results, e, g) ==
    LET g1 == [g EXCEPT !.esSvc = "set"]
        g2 == [g1 EXCEPT !.redisSvc = "set"]
        g3 == [g2 EXCEPT !.vertexSvc = "set"]
        emb == embed_query(q, "plain", TRUE, e, g3)
        vec == emb.vec
        g4 == [g3 EXCEPT !.embCache = emb.embCache]
    IN  IF ~SvcCallOk(g.esSvc, e.esUp) THEN AgentOutcome(<<>>, <<>>, TRUE, "none", g1)
        ELSE IF ~SvcCallOk(g.redisSvc, e.redisUp)
             THEN AgentOutcome(<<>>, <<>>, TRUE, "none", g2)
        ELSE IF ~SvcCallOk(g.vertexSvc, e.vertexUp)
             THEN AgentOutcome(<<>>, <<>>, TRUE, "none", g3)
        ELSE IF emb.raised
             THEN AgentOutcome(<<>>, <<>>, TRUE, "none", g3)
        ELSE IF e.search.raised THEN AgentOutcome(<<>>, <<"live">>, TRUE, vec, g4)
        ELSE AgentOutcome(ConvertAll(e.search.hits, "clinical_trial"),
                          <<"live">>, FALSE, vec, g4)

-----------------------------------------------------------------------------
(* query_analyzer: the AI classification and its fallbacks.  Confidence is *)
(* kept in hundredths.  Entities are named by how they were obtained:      *)
(* "regex" is extract_entities_regex(query), "ai" the entities of the      *)
(* reply.                                                                  *)

AllAgents == <<"research_agent", "clinical_agent", "drug_agent">>

\* the JSON object of a reply: each key is absent (None) or holds a value;
\* "other" is any intent outside the four, -5 and 150 are confidences
\* outside [0, 1]; expanded_query is null (None) or one of the given texts
AiData(texts) ==
    [intent : {None} \cup {Some(i) : i \in Intents \cup {"other"}},
     confidence : {None, Some(-5), Some(95), Some(150)},
     suggested_agents : {None, Some(AllAgents)}
                        \cup {Some(<<AllAgents[i]>>) : i \in 1..3},
     expanded_query : {None, Some(None)} \cup {Some(Some(x)) : x \in texts}]

\* what one analysis meets: vertexUp - get_vertex_ai_service() returns the
\* service; the reply of generate_chat_response: "error" - the call raises,
\* "no_json" - the text holds no JSON object, "bad_json" - json.loads fails,
\* "json" - an object with the given data
AiEnv(texts) ==
    {[vertexUp |-> v, kind |-> k, data |-> <<>>] :
        v \in BOOLEAN, k \in {"error", "no_json", "bad_json"}}
    \cup {[vertexUp |-> v, kind |-> "json", data |-> d] :
             v \in BOOLEAN, d \in AiData(texts)}

QueryAnalysisOutput(intent, entities, confidence, suggested_agents, expanded_query, path) ==
    [raised |-> FALSE, intent |-> intent, entities |-> entities,
     confidence |-> confidence, suggested_agents |-> suggested_agents,
     expanded_query |-> expanded_query, path |-> path]

\* analysis_data.get(key, default)
GetOr(o, default) == IF IsNone(o) THEN default ELSE o[1]

\* the field constraints of QueryAnalysisOutput
Validates(intent, confidence) ==
    intent \in Intents /\ confidence >= 0 /\ confidence <= 100

\* a faulty analyze_query_with_ai: the fields of the reply are not validated
analyze_query_with_ai_unvalidated(query, conversation_context, vertex_ok, r) ==
    IF ~vertex_ok THEN [raised |-> TRUE]
    ELSE IF r.kind # "json"
         THEN QueryAnalysisOutput(detect_intent_heuristic(query), "regex", 60,
                                  <<"research_agent">>, Some(query), "ai_failed")
    ELSE QueryAnalysisOutput(GetOr(r.data.intent, "general"), "ai",
                             GetOr(r.data.confidence, 80),
                             GetOr(r.data.suggested_agents, <<"research_agent">>),
                             GetOr(r.data.expanded_query, Some(query)), "ai")

\* analyze_query_with_ai; the service is fetched outside the try block
analyze_query_with_ai(query, conversation_context, vertex_ok, r) ==
    LET fallback == QueryAnalysisOutput(detect_intent_heuristic(query), "regex", 60,
                                        <<"research_agent">>, Some(query), "ai_failed")
        intent == GetOr(r.data.intent, "general")
        confidence == GetOr(r.data.confidence, 80)
        suggested_agents == GetOr(r.data.suggested_agents, <<"research_agent">>)
        expanded_query == GetOr(r.data.expanded_query, Some(query))
    IN  IF ~vertex_ok THEN [raised |-> TRUE]
        ELSE IF r.kind # "json" THEN fallback
        ELSE IF ~Validates(intent, confidence) THEN fallback
        ELSE QueryAnalysisOutput(intent, "ai", confidence, suggested_agents,
                                 expanded_query, "ai")

\* the agents chosen from the intent
agents_for(intent) ==
    IF intent = "research" THEN <<"research_agent">>
    ELSE IF intent = "clinical_trial" THEN <<"clinical_agent">>
    ELSE IF intent = "drug_info" THEN <<"drug_agent">>
    ELSE AllAgents

\* analyze_query_async: the AI analysis, or the heuristic when it raises
analyze_query_async(query, conversation_context, vertex_ok, r) ==
    LET o == analyze_query_with_ai(query, conversation_context, vertex_ok, r)
        intent == detect_intent_heuristic(query)
    IN  IF o.raised
        THEN QueryAnalysisOutput(intent, "regex", 60, agents_for(intent),
                                 Some(query), "heuristic")
        ELSE o

-----------------------------------------------------------------------------
(* synthesis_agent *)

\* round(x, 2) of x = num / den hundredths, ties to the even neighbour
RoundHalfEven(num, den) ==
    LET f == num \div den
        r2 == 2 * (num % den)
    IN  IF r2 < den THEN f
        ELSE IF r2 > den THEN f + 1
        ELSE IF f % 2 = 0 THEN f ELSE f + 1

\* a faulty score: the part earned by the number of records is not capped
calculate_confidence_score_uncapped(research_results, clinical_results, drug_results) ==
    LET all == OrEmpty(research_results) \o OrEmpty(clinical_results)
               \o OrEmpty(drug_results)
        n == Len(all)
        sum == SumSeq([i \in 1..n |-> all[i].relevance_score])
    IN  IF n = 0 THEN 0
        ELSE Min(RoundHalfEven(10 * n * 1000 * n + 3 * sum, 1000 * n), 100)

\* calculate_confidence_score, the result in hundredths; None result lists
\* count as empty
calculate_confidence_score(research_results, clinical_results, drug_results) ==
    LET all == OrEmpty(research_results) \o OrEmpty(clinical_results)
               \o OrEmpty(drug_results)
        n == Len(all)
        sum == SumSeq([i \in 1..n |-> all[i].relevance_score])
        base == Min(10 * n, 70)
    IN  IF n = 0 THEN 0
        ELSE Min(RoundHalfEven(base * 1000 * n + 3 * sum, 1000 * n), 100)

\* a faulty get_confidence_band: the result count is not capped at ten
get_confidence_band_uncapped(confidence_score, result_count, recency_score) ==
    LET weighted_score == 5 * confidence_score + 30 * result_count + 2 * recency_score
    IN  IF weighted_score >= 700 THEN "High"
        ELSE IF weighted_score >= 400 THEN "Medium"
        ELSE "Low"

\* get_confidence_band; confidence and recency in hundredths, the weighted
\* score in thousandths
get_confidence_band(confidence_score, result_count, recency_score) ==
    LET weighted_score == 5 * confidence_score + 30 * Min(result_count, 10)
                          + 2 * recency_score
    IN  IF weighted_score >= 700 THEN "High"
        ELSE IF weighted_score >= 400 THEN "Medium"
        ELSE "Low"

Citation(r, sourceType) ==
    [id |-> r.id, source_type |-> sourceType, relevance_score |-> r.relevance_score]

\* a faulty extract_citations: at most two drug citations
extract_citations_two_drugs(rr, cr, dr) ==
    [i \in 1..Min(5, Len(rr)) |-> Citation(rr[i], "pubmed")]
    \o [i \in 1..Min(3, Len(cr)) |-> Citation(cr[i], "clinical_trial")]
    \o [i \in 1..Min(2, Len(dr)) |-> Citation(dr[i], "fda_drug")]

\* extract_citations
extract_citations(rr, cr, dr) ==
    [i \in 1..Min(5, Len(rr)) |-> Citation(rr[i], "pubmed")]
    \o [i \in 1..Min(3, Len(cr)) |-> Citation(cr[i], "clinical_trial")]
    \o [i \in 1..Min(3, Len(dr)) |-> Citation(dr[i], "fda_drug")]

\* the keys of ElasticsearchService.indices
Sources == {"pubmed", "trials", "drugs"}

\* documents held by the three indices
CorpusSize == [pubmed |-> 5, trials |-> 7, drugs |-> 3]

\* what the count of the corpus meets: up - the service is obtained and its
\* client is connected; ok - the indices whose count call answers
CountOutcomes ==
    {[up |-> u, ok |-> s] : u \in BOOLEAN, s \in SUBSET Sources} \
    {[up |-> FALSE, ok |-> s] : s \in (SUBSET Sources) \ {{}}}

\* ElasticsearchService.get_index_counts: 0 for an index that cannot be counted
get_index_counts(co) ==
    [k \in Sources |-> IF k \in co.ok THEN CorpusSize[k] ELSE 0]

\* what one synthesis call meets: covered - the retrieved texts hold at
\* least two safety tokens (_coverage() >= 2); generateOk - the synthesis
\* generation call returns text; counts - the outcome of counting the corpus
SynthEnv == [covered : BOOLEAN, generateOk : BOOLEAN, counts : CountOutcomes]

\* the fields the class SynthesisOutput declares
SynthesisFields == {"final_response", "citations", "confidence_score", "key_findings"}

\* SynthesisOutput(final_response=..., citations=..., confidence_score=...,
\* confidence_band=...): the model keeps the declared fields and ignores any
\* other keyword. The output is given with the number of generation calls
\* made and the corpus sizes reported (<<>> when they were not fetched).
SynthesisOutput(resp, cits, conf, band, calls, counts) ==
    LET kwargs == [final_response |-> resp, citations |-> cits,
                   confidence_score |-> conf, confidence_band |-> band]
    IN  [k \in DOMAIN kwargs \cap SynthesisFields |-> kwargs[k]]
        @@ [raised |-> FALSE, generate_calls |-> calls, index_counts |-> counts]

\* a faulty synthesize_results: no branch for an empty result set
synthesize_results_unbranched(q, research_results, clinical_results, drug_results, e) ==
    LET rr == OrEmpty(research_results)
        cr == OrEmpty(clinical_results)
        dr == OrEmpty(drug_results)
        conf == calculate_confidence_score(Some(rr), Some(cr), Some(dr))
        cits == extract_citations(rr, cr, dr)
        \* the records carry no publication_date: calculate_recency_score is 0.5
        band == get_confidence_band(conf, Len(rr) + Len(cr) + Len(dr), 50)
    IN  IF q.se /\ ~e.covered
        THEN SynthesisOutput("advisory", cits, Max(conf - 20, 0), "Low", 0, <<>>)
        ELSE IF e.generateOk THEN SynthesisOutput("generated", cits, conf, band, 1, <<>>)
        ELSE SynthesisOutput("fallback", cits, Max(conf - 20, 0), "Low", 1, <<>>)

\* synthesize_results; None result lists count as empty
synthesize_results(q, research_results, clinical_results, drug_results, e) ==
    LET rr == OrEmpty(research_results)
        cr == OrEmpty(clinical_results)
        dr == OrEmpty(drug_results)
        total == Len(rr) + Len(cr) + Len(dr)
        conf == calculate_confidence_score(Some(rr), Some(cr), Some(dr))
        cits == extract_citations(rr, cr, dr)
        \* the records carry no publication_date: calculate_recency_score is 0.5
        band == get_confidence_band(conf, Len(rr) + Len(cr) + Len(dr), 50)
        index_counts == IF e.counts.up THEN get_index_counts(e.counts)
                        ELSE [k \in Sources |-> 0]
    IN  IF total = 0 THEN SynthesisOutput("no_results", <<>>, 0, "None", 0, index_counts)
        ELSE IF q.se /\ ~e.covered
             THEN SynthesisOutput("advisory", cits, Max(conf - 20, 0), "Low", 0, <<>>)
        ELSE IF e.generateOk THEN SynthesisOutput("generated", cits, conf, band, 1, <<>>)
        ELSE SynthesisOutput("fallback", cits, Max(conf - 20, 0), "Low", 1, <<>>)

-----------------------------------------------------------------------------
(* workflow.MedSearchWorkflow *)

\* execute: initial_state
initial_state(q) ==
    [query |-> q, intent |-> "None", entities |-> "None",
     research_results |-> None, clinical_results |-> None, drug_results |-> None,
     final_response |-> "None", citations |-> None, confidence_score |-> None,
     agents_used |-> <<>>, errors |-> <<>>, current_step |-> "None",
     progress |-> 0,
     next |-> "analyze_query", visited |-> <<>>, stages |-> <<>>,
     cancelled_at |-> None]

NoWf == [next |-> "none"]

\* progress checkpoints written by the nodes
ProgressAnalyze == 10
ProgressResearch == 40
ProgressClinical == 60
ProgressDrug == 80
ProgressSynthesize == 100

\* _route_after_analysis and the conditional edge map of ANALYZE_QUERY
_route_after_analysis(intent) ==
    IF intent = "research" THEN "research_agent"
    ELSE IF intent = "clinical_trial" THEN "clinical_agent"
    ELSE IF intent = "drug_info" THEN "drug_agent"
    ELSE "research_agent"

\* _route_after_research and the conditional edge map of RESEARCH_AGENT
_route_after_research(intent) ==
    IF intent = "general" THEN "clinical_agent" ELSE "synthesize"

\* a faulty edge map: the clinical agent always hands over to the drug agent
_route_after_clinical_to_drug(intent) == "drug_agent"

\* _route_after_clinical and the conditional edge map of CLINICAL_AGENT
_route_after_clinical(intent) ==
    IF intent = "general" THEN "drug_agent" ELSE "synthesize"

\* a faulty edge: the drug agent is wired to END, bypassing synthesis
_route_after_drug_to_end(intent) == "END"

\* add_edge(DRUG_AGENT, SYNTHESIZE)
_route_after_drug(intent) == "synthesize"

\* add_edge(SYNTHESIZE, END)
_route_after_synthesize(intent) == "END"

AddAgent(agents_used, name) ==
    IF \E i \in 1..Len(agents_used) : agents_used[i] = name
    THEN agents_used ELSE Append(agents_used, name)

\* _analyze_query_node: the update it returns, merged into the state
_analyze_query_node(state, o) ==
    IF o.raised
    THEN [state EXCEPT !.errors = Append(@, "Query analysis failed"),
                       !.current_step = "query_analysis_error"]
    ELSE [state EXCEPT !.query = GetOr(o.expanded_query, state.query),
                       !.intent = o.intent,
                       !.entities = o.entities,
                       !.current_step = "query_analysis",
                       !.progress = ProgressAnalyze]

\* _research_agent_node; raised: execute_research_agent raised into the node
_research_agent_node(state, raised, records) ==
    IF raised
    THEN [state EXCEPT !.errors = Append(@, "Research agent failed"),
                       !.research_results = Some(<<>>)]
    ELSE [state EXCEPT !.research_results = Some(records),
                       !.agents_used = AddAgent(@, "research_agent"),
                       !.current_step = "research_search",
                       !.progress = ProgressResearch]

\* a faulty node: the clinical agent writes its update onto a copy of the
\* state taken when the execution started, as a writer racing the research
\* step would, so the merged research results are lost
_clinical_agent_node_stale(state, raised, records) ==
    [state EXCEPT !.research_results = None,
                  !.clinical_results = Some(records),
                  !.agents_used = AddAgent(@, "clinical_agent"),
                  !.current_step = "clinical_search",
                  !.progress = ProgressClinical]

\* _clinical_agent_node
_clinical_agent_node(state, raised, records) ==
    IF raised
    THEN [state EXCEPT !.errors = Append(@, "Clinical agent failed"),
                       !.clinical_results = Some(<<>>)]
    ELSE [state EXCEPT !.clinical_results = Some(records),
                       !.agents_used = AddAgent(@, "clinical_agent"),
                       !.current_step = "clinical_search",
                       !.progress = ProgressClinical]

\* a faulty node: the drug agent returns an update that clears the entities
_drug_agent_node_clearing(state, raised, records) ==
    [state EXCEPT !.drug_results = Some(records),
                  !.entities = "None",
                  !.agents_used = AddAgent(@, "drug_agent"),
                  !.current_step = "drug_search",
                  !.progress = ProgressDrug]

\* a faulty node: the drug agent reports the research checkpoint
_drug_agent_node_low(state, raised, records) ==
    [state EXCEPT !.drug_results = Some(records),
                  !.agents_used = AddAgent(@, "drug_agent"),
                  !.current_step = "drug_search",
                  !.progress = ProgressResearch]

\* _drug_agent_node
_drug_agent_node(state, raised, records) ==
    IF raised
    THEN [state EXCEPT !.errors = Append(@, "Drug agent failed"),
                       !.drug_results = Some(<<>>)]
    ELSE [state EXCEPT !.drug_results = Some(records),
                       !.agents_used = AddAgent(@, "drug_agent"),
                       !.current_step = "drug_search",
                       !.progress = ProgressDrug]

\* a faulty node: synthesis forgets to report its step and checkpoint
_synthesize_node_silent(state, o) ==
    [state EXCEPT !.final_response = o.final_response,
                  !.citations = Some(o.citations),
                  !.confidence_score = Some(o.confidence_score)]

\* _synthesize_node
_synthesize_node(state, o) ==
    IF o.raised
    THEN [state EXCEPT !.errors = Append(@, "Synthesis failed"),
                       !.final_response = "synthesis_error",
                       !.confidence_score = Some(0)]
    ELSE [state EXCEPT !.final_response = o.final_response,
                       !.citations = Some(o.citations),
                       !.confidence_score = Some(o.confidence_score),
                       !.current_step = "synthesis",
                       !.progress = ProgressSynthesize]

\* the outgoing edge of a node, as wired by _build_graph
next_node(node, intent) ==
    IF node = "analyze_query" THEN _route_after_analysis(intent)
    ELSE IF node = "research_agent" THEN _route_after_research(intent)
    ELSE IF node = "clinical_agent" THEN _route_after_clinical(intent)
    ELSE IF node = "drug_agent" THEN _route_after_drug(intent)
    ELSE _route_after_synthesize(intent)

\* one superstep of app.astream: the node's update is merged, the node is
\* recorded as visited, and the outgoing edge selects the next node
Step(state, node) ==
    [state EXCEPT !.visited = Append(@, node), !.next = next_node(node, state.intent)]

-----------------------------------------------------------------------------
(* State of the service: Init is the process before any request.  The     *)
(* Elasticsearch and Redis singletons are set when the application         *)
(* lifespan has run and unset when the app is driven without it.           *)

AllConns == {"c1", "c2"}
NoRow == [status |-> "absent"]

\* no call of hybrid_search is being looked at
NoFusion == [phase |-> "none"]

\* no function call is being looked at
NoCall == [fn |-> "none"]

Shared == [esSvc |-> esSvc, redisSvc |-> redisSvc, vertexSvc |-> vertexSvc,
           embCache |-> embCache]

SetShared(g) ==
    /\ esSvc' = g.esSvc
    /\ redisSvc' = g.redisSvc
    /\ vertexSvc' = g.vertexSvc
    /\ embCache' = g.embCache

Event(type, progress) == [type |-> type, progress |-> progress]

Emit(c, evs) == emitted' = [emitted EXCEPT ![c] = @ \o evs]

\* a faulty send_to_user: the failure of connection.send_json is raised to the
\* caller
send_to_user_unguarded(sendOk) == [raised |-> ~sendOk]

\* ConnectionManager.send_to_user when connection.send_json succeeds or fails:
\* the failure is logged, the connection dropped, and nothing is raised
send_to_user(sendOk) == [raised |-> FALSE]

\* the events handle_search_start issues by sending the terminal event ev
\* inside its try block: a send that raises reaches the except clause, which
\* sends search_error
TrySend(ev, sendOk) ==
    IF send_to_user(sendOk).raised THEN <<ev, Event("search_error", 0)>> ELSE <<ev>>

\* what a call to an external backend can do: fail always during an outage
Up == IF outage THEN {FALSE} ELSE BOOLEAN

AgentEnvs ==
    {e \in AgentEnv(maxResults) :
        outage => /\ ~e.esUp /\ ~e.redisUp /\ ~e.vertexUp
                  /\ ~e.redisOk /\ ~e.redisSetOk /\ ~e.embedOk
                  /\ e.search.raised}

SynthEnvs == {e \in SynthEnv : outage => ~e.generateOk /\ ~e.counts.up}

AiEnvs == {r \in AiEnv(queries) : outage => ~r.vertexUp /\ r.kind = "error"}

InitWith(connSet, querySet, svcStates, outages) ==
    /\ conns = connSet
    /\ outage \in outages
    /\ queries = querySet
    /\ esSvc \in svcStates
    /\ redisSvc \in svcStates
    /\ vertexSvc = "none"
    /\ embCache = [q \in querySet |-> "none"]
    /\ resCache \in {"absent", "invalid", "good"}
    /\ db = NoRow
    /\ maxResults \in 1..MaxResultsBound
    /\ pc = [c \in AllConns |-> "new"]
    /\ wf = [c \in AllConns |-> NoWf]
    /\ emitted = [c \in AllConns |-> <<>>]
    /\ cancels = [c \in AllConns |-> 0]
    /\ fusion = NoFusion
    /\ call = NoCall

SearchQueries == {q \in AllQueries : q.kw = {} \/ q.kw = {"drug"}}

Init == InitWith({"c1"}, SearchQueries, {"none"}, {FALSE})

\* search.create_search: the session row is inserted with the default status
CreateSearch ==
    /\ db = NoRow
    /\ \E q \in queries : db' = [status |-> "processing", query |-> q]
    /\ UNCHANGED <<call, fusion, esSvc, redisSvc, vertexSvc, embCache, resCache, conns, queries,
                   maxResults, outage, pc, wf, emitted, cancels>>

\* search.websocket_search_endpoint up to the call of handle_search_start,
\* for a session that exists
Connect(c) ==
    /\ c \in conns
    /\ pc[c] = "new"
    /\ db # NoRow
    /\ pc' = [pc EXCEPT ![c] = "start"]
    /\ UNCHANGED <<call, fusion, esSvc, redisSvc, vertexSvc, embCache, resCache, db, conns,
                   queries, maxResults, outage, wf, emitted, cancels>>

\* search.handle_search_start up to the call of workflow.execute
HandleSearchStart(c) ==
    /\ pc[c] = "start"
    /\ \E redisUp \in Up, redisOk \in Up, redisDelOk \in Up, sendOk \in BOOLEAN :
        LET cached == IF redisOk THEN resCache ELSE "absent" IN
        /\ redisSvc' = "set"
        /\ IF ~SvcCallOk(redisSvc, redisUp)
           THEN /\ Emit(c, <<Event("search_progress", 0), Event("search_error", 0)>>)
                /\ pc' = [pc EXCEPT ![c] = "listening"]
                /\ UNCHANGED <<resCache, wf>>
           ELSE IF cached = "good"
           THEN /\ Emit(c, <<Event("search_progress", 0)>>
                            \o TrySend(Event("search_complete", 0), sendOk))
                /\ pc' = [pc EXCEPT ![c] = "listening"]
                /\ UNCHANGED <<resCache, wf>>
           ELSE /\ resCache' = IF cached = "invalid" /\ redisDelOk
                               THEN "absent" ELSE resCache
                /\ Emit(c, <<Event("search_progress", 0), Event("search_progress", 10)>>)
                /\ wf' = [wf EXCEPT ![c] = initial_state(db.query)]
                /\ pc' = [pc EXCEPT ![c] = "workflow"]
    /\ UNCHANGED <<call, fusion, esSvc, vertexSvc, embCache, db, conns, queries, maxResults, outage, cancels>>

AtNode(c, node) == pc[c] = "workflow" /\ wf[c].next = node

Trace(state, agent, o) ==
    [state EXCEPT !.stages = Append(@, [agent |-> agent, stages |-> o.stages,
                                         failed |-> o.failed, vec |-> o.vec])]

\* the analyze_query superstep of workflow.execute
AnalyzeQuery(c) ==
    /\ AtNode(c, "analyze_query")
    /\ \E r \in AiEnvs :
        LET o == analyze_query_async(wf[c].query, None,
                                     SvcCallOk(vertexSvc, r.vertexUp), r)
        IN  wf' = [wf EXCEPT ![c] = Step(_analyze_query_node(wf[c], o),
                                         "analyze_query")]
    /\ vertexSvc' = "set"
    /\ UNCHANGED <<call, fusion, esSvc, redisSvc, embCache, resCache, db, conns, queries,
                   maxResults, outage, pc, emitted, cancels>>

\* the research_agent superstep.  execute_research_agent handles every
\* exception itself (its outermost handler returns the synthetic records or
\* []), so the node is entered with raised = FALSE; the same holds for the
\* clinical and the drug agent
ResearchAgent(c) ==
    /\ AtNode(c, "research_agent")
    /\ \E e \in AgentEnvs :
        LET o == execute_research_agent(wf[c].query, maxResults, e, Shared) IN
        /\ wf' = [wf EXCEPT ![c] =
                    Step(Trace(_research_agent_node(wf[c], FALSE, o.records),
                               "research_agent", o),
                         "research_agent")]
        /\ SetShared(o.g)
    /\ UNCHANGED <<call, fusion, resCache, db, conns, queries, maxResults, outage, pc, emitted, cancels>>

\* the clinical_agent superstep
ClinicalAgent(c) ==
    /\ AtNode(c, "clinical_agent")
    /\ \E e \in AgentEnvs :
        LET o == execute_clinical_agent(wf[c].query, maxResults, e, Shared) IN
        /\ wf' = [wf EXCEPT ![c] =
                    Step(Trace(_clinical_agent_node(wf[c], FALSE, o.records),
                               "clinical_agent", o),
                         "clinical_agent")]
        /\ SetShared(o.g)
    /\ UNCHANGED <<call, fusion, resCache, db, conns, queries, maxResults, outage, pc, emitted, cancels>>

\* the drug_agent superstep
DrugAgent(c) ==
    /\ AtNode(c, "drug_agent")
    /\ \E e \in AgentEnvs :
        LET o == execute_drug_agent(wf[c].query, maxResults, e, Shared) IN
        /\ wf' = [wf EXCEPT ![c] =
                    Step(Trace(_drug_agent_node(wf[c], FALSE, o.records),
                               "drug_agent", o),
                         "drug_agent")]
        /\ SetShared(o.g)
    /\ UNCHANGED <<call, fusion, resCache, db, conns, queries, maxResults, outage, pc, emitted, cancels>>

TotalResults(state) ==
    Len(OrEmpty(state.research_results)) + Len(OrEmpty(state.clinical_results))
    + Len(OrEmpty(state.drug_results))

\* the synthesize superstep; synthesize_results returns an output on each of
\* its paths (no results, advisory, generated, fallback); the corpus is
\* counted only on the path without results
Synthesize(c) ==
    /\ AtNode(c, "synthesize")
    /\ \E e \in {x \in SynthEnvs : TotalResults(wf[c]) # 0
                                     => x.counts.ok = (IF x.counts.up THEN Sources ELSE {})} :
        LET o == synthesize_results(wf[c].query, wf[c].research_results,
                                    wf[c].clinical_results, wf[c].drug_results, e) IN
        wf' = [wf EXCEPT ![c] = Step(_synthesize_node(wf[c], o),
                                     "synthesize")]
    /\ UNCHANGED <<call, fusion, esSvc, redisSvc, vertexSvc, embCache, resCache, db, conns,
                   queries, maxResults, outage, pc, emitted, cancels>>

\* is_successful of handle_search_start
is_successful(state) ==
    /\ state.final_response \notin {"no_results", "synthesis_error"}
    /\ OrEmpty(state.confidence_score) > 0
    /\ Len(OrEmpty(state.citations)) > 0

\* handle_search_start from the return of workflow.execute to the session
\* update; len(citations) raises when the state holds no citation list
PersistResult(c) ==
    /\ AtNode(c, "END")
    /\ \E dbOk \in BOOLEAN :
        IF IsNone(wf[c].citations) \/ ~dbOk
        THEN /\ Emit(c, <<Event("search_error", 0)>>)
             /\ pc' = [pc EXCEPT ![c] = "listening"]
             /\ wf' = [wf EXCEPT ![c] = NoWf]
             /\ db' = db
        ELSE /\ db' = [db EXCEPT !.status = "completed"]
             /\ pc' = [pc EXCEPT ![c] = "persisted"]
             /\ UNCHANGED <<wf, emitted>>
    /\ UNCHANGED <<call, fusion, esSvc, redisSvc, vertexSvc, embCache, resCache, conns, queries,
                   maxResults, outage, cancels>>

\* handle_search_start after the session update: result cache, completion
CompleteSearch(c) ==
    /\ pc[c] = "persisted"
    /\ \E redisSetOk \in Up :
        resCache' = IF is_successful(wf[c]) /\ redisSetOk THEN "good" ELSE resCache
    /\ \E sendOk \in BOOLEAN :
        Emit(c, TrySend(Event("search_complete", wf[c].progress), sendOk))
    /\ pc' = [pc EXCEPT ![c] = "listening"]
    /\ wf' = [wf EXCEPT ![c] = NoWf]
    /\ UNCHANGED <<call, fusion, esSvc, redisSvc, vertexSvc, embCache, db, conns, queries,
                   maxResults, outage, cancels>>

\* search.handle_search_cancel, called from the receive loop of the endpoint
HandleSearchCancel(c) ==
    /\ pc[c] = "listening"
    /\ cancels[c] < MaxCancels
    /\ cancels' = [cancels EXCEPT ![c] = @ + 1]
    /\ \E dbOk \in BOOLEAN :
        IF dbOk
        THEN /\ db' = [db EXCEPT !.status = "cancelled"]
             /\ Emit(c, <<Event("search_cancelled", 0)>>)
             /\ wf' = [d \in AllConns |->
                         IF pc[d] \in {"workflow", "persisted"}
                            /\ IsNone(wf[d].cancelled_at)
                         THEN [wf[d] EXCEPT !.cancelled_at = Some(Len(wf[d].visited))]
                         ELSE wf[d]]
        ELSE UNCHANGED <<db, emitted, wf>>
    /\ UNCHANGED <<call, fusion, esSvc, redisSvc, vertexSvc, embCache, resCache, conns, queries,
                   maxResults, outage, pc>>

\* WebSocketDisconnect in the receive loop
Disconnect(c) ==
    /\ pc[c] = "listening"
    /\ pc' = [pc EXCEPT ![c] = "closed"]
    /\ UNCHANGED <<call, fusion, esSvc, redisSvc, vertexSvc, embCache, resCache, db, conns,
                   queries, maxResults, outage, wf, emitted, cancels>>

Next ==
    \/ CreateSearch
    \/ \E c \in AllConns : Connect(c)
    \/ \E c \in AllConns : HandleSearchStart(c)
    \/ \E c \in AllConns : AnalyzeQuery(c)
    \/ \E c \in AllConns : ResearchAgent(c)
    \/ \E c \in AllConns : ClinicalAgent(c)
    \/ \E c \in AllConns : DrugAgent(c)
    \/ \E c \in AllConns : Synthesize(c)
    \/ \E c \in AllConns : PersistResult(c)
    \/ \E c \in AllConns : CompleteSearch(c)
    \/ \E c \in AllConns : HandleSearchCancel(c)
    \/ \E c \in AllConns : Disconnect(c)

Spec == Init /\ [][Next]_vars

\* the served application with two websocket connections for the session
InitWS == InitWith(AllConns, SearchQueries, {"set"}, {TRUE})

SpecWS == InitWS /\ [][Next]_vars

-----------------------------------------------------------------------------
(* Properties *)

\* an execution of the workflow is in progress or has just returned
Running(c) == pc[c] \in {"workflow", "persisted"}

IsPrefix(s, t) == Len(s) <= Len(t) /\ SubSeq(t, 1, Len(s)) = s

Count(s, x) == Cardinality({i \in 1..Len(s) : s[i] = x})

ExpectedSteps(intent) ==
    IF intent = "research" THEN <<"analyze_query", "research_agent", "synthesize">>
    ELSE IF intent = "clinical_trial"
         THEN <<"analyze_query", "clinical_agent", "synthesize">>
    ELSE IF intent = "drug_info" THEN <<"analyze_query", "drug_agent", "synthesize">>
    ELSE <<"analyze_query", "research_agent", "clinical_agent", "drug_agent",
           "synthesize">>

\* C1: in every execution the steps visited so far are a prefix of the
\* sequence fixed by the analysed intent, the intent is one of the four, and
\* a finished execution has visited exactly that sequence, each step once.
C1_StepSequenceFixedByIntent ==
    \A c \in AllConns :
        Running(c) /\ wf[c].visited # <<>> =>
            /\ wf[c].intent \in Intents
            /\ IsPrefix(wf[c].visited, ExpectedSteps(wf[c].intent))
            /\ wf[c].next = "END" => wf[c].visited = ExpectedSteps(wf[c].intent)

C1_Witness ==
    \E c \in AllConns :
        /\ Running(c) /\ wf[c].next = "END" /\ wf[c].intent = "clinical_trial"
        /\ wf[c].visited = <<"analyze_query", "clinical_agent", "synthesize">>

\* C3: an execution takes at most five steps; until it reaches END its next
\* node is one of the five and that node's step can be taken; it runs
\* synthesize at most once, and exactly once (as its last step) when it
\* returns; and it returns a state with a final response whatever the
\* backends did.
C3_ExecuteTerminatesWithSynthesis ==
    \A c \in AllConns :
        pc[c] = "workflow" =>
            /\ Len(wf[c].visited) <= 5
            /\ Count(wf[c].visited, "synthesize") <= 1
            /\ wf[c].next # "END" =>
                 /\ wf[c].next \in {"analyze_query", "research_agent",
                                    "clinical_agent", "drug_agent", "synthesize"}
                 /\ \E e \in AgentEnvs : TRUE
                 /\ \E e \in SynthEnvs : TRUE
            /\ wf[c].next = "END" =>
                 /\ Count(wf[c].visited, "synthesize") = 1
                 /\ wf[c].visited[Len(wf[c].visited)] = "synthesize"
                 /\ wf[c].final_response \in
                        {"no_results", "advisory", "generated", "fallback"}
                 /\ ~IsNone(wf[c].citations)
                 /\ ~IsNone(wf[c].confidence_score)

\* every backend fails during the execution and it still returns
C3_Witness ==
    \E c \in AllConns :
        /\ pc[c] = "workflow" /\ wf[c].next = "END"
        /\ wf[c].intent = "general"
        /\ wf[c].final_response = "fallback"
        /\ \E i \in 1..Len(wf[c].stages) :
              wf[c].stages[i].agent = "clinical_agent" /\ wf[c].stages[i].failed

\* C4: progress starts at 0 and no step of an execution lowers it.
C4_ProgressNeverDecreases ==
    [][\A c \in AllConns :
          /\ pc[c] = "start" /\ pc'[c] = "workflow" => wf'[c].progress = 0
          /\ pc[c] = "workflow" /\ Running(c)' => wf'[c].progress >= wf[c].progress]_vars

C4_Witness ==
    \E c \in AllConns :
        /\ Running(c) /\ wf[c].intent = "general" /\ wf[c].progress = ProgressDrug
        /\ wf[c].visited[Len(wf[c].visited)] = "drug_agent"

StepName(node) ==
    IF node = "analyze_query" THEN "query_analysis"
    ELSE IF node = "research_agent" THEN "research_search"
    ELSE IF node = "clinical_agent" THEN "clinical_search"
    ELSE IF node = "drug_agent" THEN "drug_search"
    ELSE "synthesis"

Checkpoint(node) ==
    IF node = "analyze_query" THEN 10
    ELSE IF node = "research_agent" THEN 40
    ELSE IF node = "clinical_agent" THEN 60
    ELSE IF node = "drug_agent" THEN 80
    ELSE 100

\* C5: after each step progress is the checkpoint of the step just executed
\* (10, 40, 60, 80, 100) and current_step names that step; the state a
\* finished execution returns has progress 100.
C5_ProgressIsCheckpoint ==
    \A c \in AllConns :
        Running(c) /\ wf[c].visited # <<>> =>
            LET last == wf[c].visited[Len(wf[c].visited)] IN
            /\ wf[c].progress = Checkpoint(last)
            /\ wf[c].current_step = StepName(last)
            /\ wf[c].next = "END" => wf[c].progress = 100

C5_Witness ==
    \E c \in AllConns :
        /\ Running(c) /\ wf[c].next = "END" /\ wf[c].progress = 100
        /\ wf[c].current_step = "synthesis"
        /\ \E i \in 1..Len(wf[c].stages) : wf[c].stages[i].failed

\* the agent invocations an execution has made, with what each returned
Invocations(c) ==
    {[agent |-> wf[c].stages[i].agent, stages |-> wf[c].stages[i].stages,
      failed |-> wf[c].stages[i].failed,
      records |-> OrEmpty(IF wf[c].stages[i].agent = "research_agent"
                          THEN wf[c].research_results
                          ELSE IF wf[c].stages[i].agent = "clinical_agent"
                               THEN wf[c].clinical_results
                               ELSE wf[c].drug_results)] :
        i \in 1..Len(wf[c].stages)}

AllFrom(records, origin) == \A i \in 1..Len(records) : records[i].origin = origin

\* C2: when the agent of a step fails, the step stores the empty list for
\* that source and appends exactly one entry to errors, keeping the earlier
\* entries and the other sources' results, and the execution goes on.
C2_AgentFailureRecorded ==
    [][\A c \in AllConns :
          /\ pc[c] = "workflow" /\ Running(c)'
          /\ Len(wf'[c].stages) = Len(wf[c].stages) + 1
          /\ wf'[c].stages[Len(wf'[c].stages)].failed
          => /\ Len(wf'[c].errors) = Len(wf[c].errors) + 1
             /\ IsPrefix(wf[c].errors, wf'[c].errors)
             /\ wf'[c].next \in {"clinical_agent", "drug_agent", "synthesize"}
             /\ LET agent == wf'[c].stages[Len(wf'[c].stages)].agent IN
                /\ agent = "research_agent" =>
                     /\ wf'[c].research_results = Some(<<>>)
                     /\ wf'[c].clinical_results = wf[c].clinical_results
                     /\ wf'[c].drug_results = wf[c].drug_results
                /\ agent = "clinical_agent" =>
                     /\ wf'[c].clinical_results = Some(<<>>)
                     /\ wf'[c].research_results = wf[c].research_results
                     /\ wf'[c].drug_results = wf[c].drug_results
                /\ agent = "drug_agent" =>
                     /\ wf'[c].drug_results = Some(<<>>)
                     /\ wf'[c].research_results = wf[c].research_results
                     /\ wf'[c].clinical_results = wf[c].clinical_results]_vars

\* the clinical agent failed, and the execution returned without an error entry
C2_Witness ==
    \E c \in AllConns :
        /\ Running(c) /\ wf[c].next = "END" /\ wf[c].errors = <<>>
        /\ wf[c].clinical_results = Some(<<>>)
        /\ wf[c].current_step = "synthesis"
        /\ \E v \in Invocations(c) : v.agent = "clinical_agent" /\ v.failed

\* C8: whenever the live path of an agent invocation yields no records, the
\* agent returns a non-empty list of synthetic records (max_results >= 1).
C8_SyntheticFallbackNeverEmpty ==
    \A c \in AllConns :
        Running(c) =>
            \A v \in Invocations(c) :
                (v.records = <<>> \/ ~AllFrom(v.records, "live")) =>
                    v.records # <<>> /\ AllFrom(v.records, "mock")

\* the trial search succeeded with zero hits and the agent returned nothing
C8_Witness ==
    \E c \in AllConns :
        /\ Running(c) /\ maxResults >= 1
        /\ \E v \in Invocations(c) :
              /\ v.agent = "clinical_agent" /\ ~v.failed
              /\ v.stages = <<"live">> /\ v.records = <<>>

\* what an agent hands to its node: the records as the code builds them
Visible(records) ==
    [i \in 1..Len(records) |->
        [id |-> records[i].id, source_type |-> records[i].source_type,
         relevance_score |-> records[i].relevance_score]]

\* where the records of an outcome came from
OutcomeSource(o) ==
    IF o.records = <<>> THEN (IF o.failed THEN "failed" ELSE "empty")
    ELSE o.records[1].origin

SameOutcomeSameSource(o1, o2) ==
    Visible(o1.records) = Visible(o2.records) => OutcomeSource(o1) = OutcomeSource(o2)

\* C9: what an agent hands to the orchestrator tells where the data came
\* from: two outcomes that look the same to the orchestrator have the same
\* source (live, synthetic, empty, failed), so that the confidence
\* computation, which sees only the handed records, can tell them apart.
C9_OutcomeStatesItsSource ==
    \A c \in AllConns :
        /\ AtNode(c, "research_agent") =>
             \A e1 \in AgentEnvs, e2 \in AgentEnvs :
                SameOutcomeSameSource(
                    execute_research_agent(wf[c].query, maxResults, e1, Shared),
                    execute_research_agent(wf[c].query, maxResults, e2, Shared))
        /\ AtNode(c, "clinical_agent") =>
             \A e1 \in AgentEnvs, e2 \in AgentEnvs :
                SameOutcomeSameSource(
                    execute_clinical_agent(wf[c].query, maxResults, e1, Shared),
                    execute_clinical_agent(wf[c].query, maxResults, e2, Shared))
        /\ AtNode(c, "drug_agent") =>
             \A e1 \in AgentEnvs, e2 \in AgentEnvs :
                SameOutcomeSameSource(
                    execute_drug_agent(wf[c].query, maxResults, e1, Shared),
                    execute_drug_agent(wf[c].query, maxResults, e2, Shared))

\* synthetic records were handed over and the confidence was computed from
\* them exactly as from live ones
C9_Witness ==
    \E c \in AllConns :
        /\ Running(c) /\ wf[c].next = "END"
        /\ \E v \in Invocations(c) : v.records # <<>> /\ AllFrom(v.records, "mock")
        /\ wf[c].confidence_score =
              Some(calculate_confidence_score(wf[c].research_results,
                                              wf[c].clinical_results,
                                              wf[c].drug_results))

\* the stages of the degradation chain, for what one invocation met
ChainInOrder(o, e) ==
    /\ o.stages \in {<<>>, <<"mock">>, <<"live">>, <<"live", "mock">>}
    /\ (o.records # <<>> /\ AllFrom(o.records, "mock")) =>
          \/ o.stages = <<"mock">>
          \/ o.stages = <<"live", "mock">> /\ (e.search.raised \/ e.search.hits = <<>>)
    /\ (o.stages # <<>> /\ o.stages[1] = "live"
        /\ ~e.search.raised /\ e.search.hits # <<>>) =>
          /\ o.stages = <<"live">>
          /\ Len(o.records) = Len(e.search.hits)
          /\ AllFrom(o.records, "live")

\* C10: in every agent invocation synthetic records are returned only when
\* the live stage was skipped as unavailable, raised, or returned no hit;
\* when the live search returns at least one hit every returned record is a
\* live one; and the live search is never attempted after the substitution.
C10_DegradationChainInOrder ==
    \A c \in AllConns :
        /\ AtNode(c, "research_agent") =>
             \A e \in AgentEnvs :
                ChainInOrder(execute_research_agent(wf[c].query, maxResults, e, Shared), e)
        /\ AtNode(c, "clinical_agent") =>
             \A e \in AgentEnvs :
                ChainInOrder(execute_clinical_agent(wf[c].query, maxResults, e, Shared), e)
        /\ AtNode(c, "drug_agent") =>
             \A e \in AgentEnvs :
                ChainInOrder(execute_drug_agent(wf[c].query, maxResults, e, Shared), e)

\* one execution in which the live search came back empty-handed and the
\* synthetic set was substituted, and another agent returned live records
C10_Witness ==
    \E c \in AllConns :
        /\ Running(c)
        /\ \E v \in Invocations(c) :
              v.stages = <<"live", "mock">> /\ AllFrom(v.records, "mock") /\ v.records # <<>>
        /\ \E v \in Invocations(c) :
              v.stages = <<"live">> /\ AllFrom(v.records, "live") /\ v.records # <<>>

ResultEvents(c) ==
    {i \in 1..Len(emitted[c]) :
        emitted[c][i].type \in {"search_progress", "search_complete"}}

\* C6: once a cancel request has been processed during an execution of the
\* session, the persisted status is cancelled and no later step of that
\* execution changes it.
C6_CancelledStatusPersists ==
    [][\A c \in AllConns :
          Running(c) /\ ~IsNone(wf[c].cancelled_at) /\ db.status = "cancelled"
          => db'.status = "cancelled"]_vars

\* the completion update of an execution cancelled at its first step
C6_Witness ==
    \E c \in AllConns :
        /\ pc[c] = "persisted" /\ wf[c].cancelled_at = Some(1)
        /\ db.status = "completed"

\* C7: once the session is marked cancelled during an execution, that
\* execution enters no further step and its connection is sent no further
\* progress or completion event.
C7_CancelStopsExecution ==
    [][\A c \in AllConns :
          Running(c) /\ ~IsNone(wf[c].cancelled_at) /\ db.status = "cancelled"
          => /\ Running(c)' => wf'[c].visited = wf[c].visited
             /\ Cardinality(ResultEvents(c))' = Cardinality(ResultEvents(c))]_vars

\* an execution cancelled after its first step ran to its last step
C7_Witness ==
    \E c \in AllConns :
        /\ Running(c) /\ wf[c].cancelled_at = Some(1) /\ db.status = "cancelled"
        /\ wf[c].next = "END" /\ Len(wf[c].visited) = 5

\* the invocations of an execution whose live path did not deliver: a backend
\* was unreachable, the embedding or the search failed, or the search had no
\* hit, and the agent went on with synthetic records or with none
Recovered(c) ==
    {i \in 1..Len(wf[c].stages) :
        wf[c].stages[i].failed \/ wf[c].stages[i].stages # <<"live">>}

\* C11: every failure an execution recovers from locally (backend
\* unreachable, embedding failure, zero hits, failed call) has its entry in
\* that execution's errors, whichever agent met it, and the execution goes on.
C11_RecoveredFailureRecorded ==
    \A c \in AllConns :
        Running(c) =>
            /\ Len(wf[c].errors) >= Cardinality(Recovered(c))
            /\ Recovered(c) # {} => wf[c].next # "none"

\* the literature search found nothing, the synthetic records were
\* substituted, and the execution returned with no entry in errors
C11_Witness ==
    \E c \in AllConns :
        /\ Running(c) /\ wf[c].next = "END" /\ wf[c].errors = <<>>
        /\ \E i \in Recovered(c) :
              /\ wf[c].stages[i].agent = "research_agent"
              /\ wf[c].stages[i].stages = <<"live", "mock">>
              /\ ~wf[c].stages[i].failed

StartedAndClosed(d) ==
    /\ pc[d] = "closed"
    /\ \E i \in 1..Len(emitted[d]) : emitted[d][i] = Event("search_progress", 10)

\* C13: a caller that connects again with the id of a session after a
\* disconnect resumes it: the start handler of the new connection starts no
\* second execution of the workflow, it hands over the result of the
\* execution already started for the session.
C13_ReconnectResumesSession ==
    [][\A c \in AllConns :
          /\ pc[c] = "start" /\ pc'[c] # "start"
          /\ \E d \in AllConns \ {c} : StartedAndClosed(d)
          => /\ pc'[c] = "listening"
             /\ emitted'[c][Len(emitted'[c])].type = "search_complete"]_vars

\* the session was executed and completed on a connection that is closed
\* now, and the second connection is inside a new execution for the same id
C13_Witness ==
    \E c \in AllConns :
        /\ \E d \in AllConns \ {c} : StartedAndClosed(d)
        /\ db.status = "completed"
        /\ pc[c] = "workflow" /\ wf[c].next = "END" /\ Len(wf[c].visited) >= 3

\* what the embedding step r did with the cache g for the key, given what the
\* calls met (e): with the cache reachable and answering, an entry held for
\* the key is handed on unchanged without a generate_embedding call; with no
\* entry held, generate_embedding is called once, with the query task type,
\* and the vector it returns is in the cache under the key, with the
\* 24 hour expiry, when the step hands it to the search
GatewayOk(r, key, redis_available, e, g) ==
    LET held == g.embCache[key] IN
    /\ r.calls \in {0, 1}
    /\ (redis_available /\ e.redisOk /\ held # "none") =>
          /\ ~r.raised /\ r.vec = held /\ r.calls = 0
          /\ r.embCache = g.embCache
    /\ (redis_available /\ e.redisOk /\ held = "none") =>
          /\ r.calls = 1 /\ r.task_type = "RETRIEVAL_QUERY"
          /\ (e.embedOk /\ e.redisSetOk) =>
                /\ ~r.raised /\ r.vec # "none"
                /\ r.embCache[key] = r.vec
                /\ r.ttl = 24 * 60 * 60
                /\ \A k \in DOMAIN g.embCache \ {key} : r.embCache[k] = g.embCache[k]

\* the agent searched with the vector of its embedding step, the cache being
\* as that step left it
SearchedWith(o, r) ==
    (o.stages # <<>> /\ o.stages[1] = "live") =>
        /\ ~r.raised /\ o.vec = r.vec /\ o.g.embCache = r.embCache

\* C14: in every agent invocation, with the cache service reachable and
\* answering: a cached vector for the query text is used unchanged and no
\* embedding is requested; without one, the embedding is requested exactly
\* once, in query task mode, and stored under the key of the query text with
\* a TTL of 24 hours before the vector search is called with it.
C14_EmbeddingGateway ==
    \A c \in AllConns :
        /\ AtNode(c, "research_agent") =>
             \A e \in AgentEnvs :
                LET ra == SvcCallOk(redisSvc, e.redisUp)
                    r == embed_query(wf[c].query, "plain", ra, e, Shared)
                IN  /\ GatewayOk(r, wf[c].query, ra, e, Shared)
                    /\ SearchedWith(execute_research_agent(wf[c].query, maxResults,
                                                           e, Shared), r)
        /\ AtNode(c, "clinical_agent") =>
             \A e \in AgentEnvs :
                LET r == embed_query(wf[c].query, "plain", TRUE, e, Shared)
                IN  /\ GatewayOk(r, wf[c].query, TRUE, e, Shared)
                    /\ SearchedWith(execute_clinical_agent(wf[c].query, maxResults,
                                                           e, Shared), r)
        /\ AtNode(c, "drug_agent") =>
             \A e \in AgentEnvs :
                LET ra == SvcCallOk(redisSvc, e.redisUp)
                    r == embed_query(wf[c].query, expanded_query_text(wf[c].query),
                                     ra, e, Shared)
                IN  /\ GatewayOk(r, wf[c].query, ra, e, Shared)
                    /\ SearchedWith(execute_drug_agent(wf[c].query, maxResults,
                                                       e, Shared), r)

\* the research agent missed, generated and stored the vector, and the
\* clinical agent is about to find it in the cache
C14_Witness ==
    \E c \in AllConns :
        /\ AtNode(c, "clinical_agent")
        /\ embCache[wf[c].query] = "plain"
        /\ wf[c].stages[Len(wf[c].stages)].agent = "research_agent"
        /\ wf[c].stages[Len(wf[c].stages)].vec = "plain"

\* the calls of one agent invocation find the cache unreachable and failing
\* on every get and set, the search and the generation backends healthy
CacheDown(e) ==
    /\ ~e.redisUp /\ ~e.redisOk /\ ~e.redisSetOk
    /\ e.esUp /\ e.vertexUp /\ e.embedOk /\ ~e.search.raised

\* the same invocation with the cache reachable and answering
CacheUp(e) == [e EXCEPT !.redisUp = TRUE, !.redisOk = TRUE, !.redisSetOk = TRUE]

EmptyCache(g) == [g EXCEPT !.embCache = [k \in DOMAIN g.embCache |-> "none"]]

ComputedBy(agent, q) ==
    IF agent = "drug_agent" THEN expanded_query_text(q) ELSE "plain"

AgentNames == {"research_agent", "clinical_agent", "drug_agent"}

\* C16: whatever is stored under the embedding-cache key of a query is one
\* and the same function of that query's text whichever agent wrote it, so
\* an agent that reads the entry gets the vector it would have computed.
C16_CacheValueFunctionOfKey ==
    \A q \in DOMAIN embCache :
        embCache[q] # "none" =>
            \A agent \in AgentNames : embCache[q] = ComputedBy(agent, q)

\* the drug agent stored the vector of the expanded text under the key of
\* the query as the user wrote it
C16_Witness ==
    \E c \in AllConns :
        /\ Running(c) /\ wf[c].stages # <<>>
        /\ embCache[wf[c].query] = "expanded"
        /\ ComputedBy("research_agent", wf[c].query) = "plain"
        /\ wf[c].stages[Len(wf[c].stages)].agent = "drug_agent"
        /\ wf[c].stages[Len(wf[c].stages)].vec = "expanded"

\* C17: query expansion changes the lexical query only: in every agent
\* invocation that called the search, the vector handed to the
\* nearest-neighbour part is the embedding of the original query text,
\* whether or not expansion clauses were added to the lexical text.
C17_VectorOfOriginalQuery ==
    \A c \in AllConns :
        Running(c) =>
            \A i \in 1..Len(wf[c].stages) :
                (wf[c].stages[i].stages # <<>> /\ wf[c].stages[i].stages[1] = "live")
                => wf[c].stages[i].vec = "plain"

\* with nothing cached, the drug agent searched with the vector of the
\* expanded text and returned the live hits of that search
C17_Witness ==
    \E c \in AllConns :
        /\ Running(c) /\ Expanded(wf[c].query)
        /\ embCache[wf[c].query] = "none"
        /\ \E i \in 1..Len(wf[c].stages) :
              /\ wf[c].stages[i].agent = "drug_agent"
              /\ wf[c].stages[i].stages = <<"live">>
              /\ wf[c].stages[i].vec = "expanded"
        /\ ~IsNone(wf[c].drug_results) /\ OrEmpty(wf[c].drug_results) # <<>>

-----------------------------------------------------------------------------
(* ElasticsearchService.hybrid_search: the fusion of the nearest-neighbour *)
(* and the lexical hit list.  Raw scores and weights are non-negative      *)
(* numbers; weights are kept in tenths, fused scores as exact fractions.   *)

Docs == {"d1", "d2", "d3"}

\* raw _score values of the engine
Scores == {0, 1, 2}

\* settings.RRF_K
RRF_K == 60

Strategies == {"weighted", "rrf"}

\* (keyword_weight, semantic_weight) in tenths: the research and the drug
\* agent's weights, the lexical-only weights of the evaluation harness, and
\* the vector-only weights
WeightPairs == {<<3, 7>>, <<5, 5>>, <<10, 0>>, <<0, 10>>}

\* a hit list as the engine returns it: distinct ids, by descending score
HitLists(n) ==
    UNION {{h \in [1..len -> [id : Docs, score : Scores]] :
               \A i, j \in 1..len :
                   i < j => h[i].id # h[j].id /\ h[i].score >= h[j].score} :
           len \in 0..n}

Frac(n, d) == [num |-> n, den |-> d]
FracAdd(a, b) == Frac(a.num * b.den + b.num * a.den, a.den * b.den)
FracEq(a, b) == a.num * b.den = b.num * a.den
FracLess(a, b) == a.num * b.den < b.num * a.den

\* a faulty _to_map: ranks counted from 0
_to_map_zero_based(hits) ==
    [id \in {hits[i].id : i \in 1..Len(hits)} |->
        LET last == CHOOSE i \in 1..Len(hits) :
                       hits[i].id = id /\ \A j \in (i + 1)..Len(hits) : hits[j].id # id
        IN  [score |-> hits[last].score, rank |-> last - 1]]

\* _to_map: id -> score and 1-based rank (a later hit with the same id
\* overwrites an earlier one)
_to_map(hits) ==
    [id \in {hits[i].id : i \in 1..Len(hits)} |->
        LET last == CHOOSE i \in 1..Len(hits) :
                       hits[i].id = id /\ \A j \in (i + 1)..Len(hits) : hits[j].id # id
        IN  [score |-> hits[last].score, rank |-> last]]

\* max([...], default=1.0) or 1.0
max_score(m) ==
    LET vals == {m[id].score : id \in DOMAIN m}
        mx == CHOOSE v \in vals : \A w \in vals : w <= v
    IN  IF vals = {} THEN 1 ELSE IF mx = 0 THEN 1 ELSE mx

\* the rrf branch: the score of one document
rrf_score(doc_id, knn_map, bm25_map) ==
    LET k == Max(1, RRF_K)
        a == IF doc_id \in DOMAIN knn_map
             THEN Frac(1, k + knn_map[doc_id].rank) ELSE Frac(0, 1)
        b == IF doc_id \in DOMAIN bm25_map
             THEN Frac(1, k + bm25_map[doc_id].rank) ELSE Frac(0, 1)
    IN  FracAdd(a, b)

\* the weighted branch: fused_score of one document
weighted_score(doc_id, knn_map, bm25_map, keyword_weight, semantic_weight) ==
    LET knn_norm == IF doc_id \in DOMAIN knn_map
                    THEN Frac(knn_map[doc_id].score, max_score(knn_map))
                    ELSE Frac(0, 1)
        bm25_norm == IF doc_id \in DOMAIN bm25_map
                     THEN Frac(bm25_map[doc_id].score, max_score(bm25_map))
                     ELSE Frac(0, 1)
    IN  FracAdd(Frac(semantic_weight * knn_norm.num, 10 * knn_norm.den),
                Frac(keyword_weight * bm25_norm.num, 10 * bm25_norm.den))

\* list.sort(key=_score, reverse=True): stable, equal scores keep their order
RECURSIVE sort_by_score(_)
sort_by_score(s) ==
    IF s = <<>> THEN <<>>
    ELSE LET x == Head(s)
             t == sort_by_score(Tail(s))
             n == Cardinality({i \in 1..Len(t) : FracLess(x.score, t[i].score)})
         IN  SubSeq(t, 1, n) \o <<x>> \o SubSeq(t, n + 1, Len(t))

\* the orders in which `for doc_id in all_ids` can walk the set of ids
Orders(ids) ==
    {o \in [1..Cardinality(ids) -> ids] :
        \A i, j \in 1..Cardinality(ids) : i # j => o[i] # o[j]}

\* combined[:size]
Slice(s, size) ==
    IF size >= 0 THEN Take(s, size) ELSE SubSeq(s, 1, Max(Len(s) + size, 0))

\* the list `combined` before it is sorted, the ids walked in the given order
Combined(knn_map, bm25_map, keyword_weight, semantic_weight, strategy, order) ==
    [i \in 1..Len(order) |->
        [id |-> order[i],
         score |-> IF strategy = "rrf"
                   THEN rrf_score(order[i], knn_map, bm25_map)
                   ELSE weighted_score(order[i], knn_map, bm25_map,
                                       keyword_weight, semantic_weight)]]

\* a faulty hybrid_search: the sorted list is returned whole
hybrid_search_untruncated(knn_hits, bm25_hits, size, keyword_weight, semantic_weight, strategy, order) ==
    sort_by_score(Combined(_to_map(knn_hits), _to_map(bm25_hits),
                           keyword_weight, semantic_weight, strategy, order))

\* hybrid_search from the two engine responses to the returned list
hybrid_search(knn_hits, bm25_hits, size, keyword_weight, semantic_weight, strategy, order) ==
    Slice(sort_by_score(Combined(_to_map(knn_hits), _to_map(bm25_hits),
                                 keyword_weight, semantic_weight, strategy, order)),
          size)

FusionInputs ==
    {f \in [knn : HitLists(MaxHits), bm25 : HitLists(MaxHits), size : 0..MaxSize,
            weights : WeightPairs, strategy : Strategies] :
        f.strategy = "rrf" => f.weights = <<3, 7>>}

\* one call of hybrid_search with arbitrary engine responses; the rest of the
\* program is not started
InitFusion ==
    /\ \E f \in FusionInputs :
          fusion = [phase |-> "called", knn |-> f.knn, bm25 |-> f.bm25,
                    size |-> f.size, keyword_weight |-> f.weights[1],
                    semantic_weight |-> f.weights[2], strategy |-> f.strategy,
                    results |-> <<>>]
    /\ conns = {} /\ outage = FALSE /\ queries = {}
    /\ esSvc = "set" /\ redisSvc = "none" /\ vertexSvc = "none"
    /\ embCache = [q \in {} |-> "none"]
    /\ resCache = "absent" /\ db = NoRow /\ maxResults = 1
    /\ pc = [c \in AllConns |-> "new"]
    /\ wf = [c \in AllConns |-> NoWf]
    /\ emitted = [c \in AllConns |-> <<>>]
    /\ cancels = [c \in AllConns |-> 0]
    /\ call = NoCall

all_ids(knn_hits, bm25_hits) ==
    {knn_hits[i].id : i \in 1..Len(knn_hits)}
    \cup {bm25_hits[i].id : i \in 1..Len(bm25_hits)}

\* hybrid_search returns
HybridSearch ==
    /\ fusion.phase = "called"
    /\ \E order \in Orders(all_ids(fusion.knn, fusion.bm25)) :
          fusion' = [fusion EXCEPT
                        !.phase = "returned",
                        !.results = hybrid_search(fusion.knn, fusion.bm25, fusion.size,
                                                  fusion.keyword_weight,
                                                  fusion.semantic_weight,
                                                  fusion.strategy, order)]
    /\ UNCHANGED <<call, esSvc, redisSvc, vertexSvc, embCache, resCache, db, conns,
                   queries, maxResults, outage, pc, wf, emitted, cancels>>

NextFusion == HybridSearch

SpecFusion == InitFusion /\ [][NextFusion]_vars

Returned == fusion.phase = "returned"

Ids(hits) == [i \in 1..Len(hits) |-> hits[i].id]

\* the 1-based position of a document in a hit list, 0 when it is absent
RankIn(hits, id) ==
    IF (\E j \in 1..Len(hits) : hits[j].id = id)
    THEN CHOOSE i \in 1..Len(hits) : hits[i].id = id
    ELSE 0

\* C18: for size >= 0, non-negative raw scores and non-negative weights, and
\* both strategies, hybrid_search returns at most size records and every
\* fused score is >= 0.
C18_FusionBounded ==
    (/\ Returned /\ fusion.size >= 0
     /\ fusion.keyword_weight >= 0 /\ fusion.semantic_weight >= 0
     /\ \A j \in 1..Len(fusion.knn) : fusion.knn[j].score >= 0
     /\ \A j \in 1..Len(fusion.bm25) : fusion.bm25[j].score >= 0)
    => /\ Len(fusion.results) <= fusion.size
       /\ \A i \in 1..Len(fusion.results) :
             fusion.results[i].score.den > 0 /\ fusion.results[i].score.num >= 0

\* more documents were fused than asked for, and the list was cut to size
C18_Witness ==
    /\ Returned /\ fusion.size >= 1
    /\ Cardinality(all_ids(fusion.knn, fusion.bm25)) > fusion.size
    /\ Len(fusion.results) = fusion.size
    /\ fusion.results[1].score.num > 0

\* a document's contribution from one list under rrf with k = RRF_K
Reciprocal(rank) == IF rank = 0 THEN Frac(0, 1) ELSE Frac(1, RRF_K + rank)

\* C19: under rrf the fused score of every returned document is the sum,
\* over the two lists, of 1/(k + its 1-based rank) where it appears and 0
\* where it does not; with k = 60, rank 1 in both lists gives 2/61 and rank
\* r in one list only gives 1/(60 + r).
C19_RrfScore ==
    (Returned /\ fusion.strategy = "rrf") =>
        \A i \in 1..Len(fusion.results) :
            LET d == fusion.results[i]
                rk == RankIn(fusion.knn, d.id)
                rb == RankIn(fusion.bm25, d.id)
            IN  /\ FracEq(d.score, FracAdd(Reciprocal(rk), Reciprocal(rb)))
                /\ (rk = 1 /\ rb = 1) => FracEq(d.score, Frac(2, 61))
                /\ (rk > 0 /\ rb = 0) => FracEq(d.score, Frac(1, 60 + rk))
                /\ (rk = 0 /\ rb > 0) => FracEq(d.score, Frac(1, 60 + rb))

\* one document heads both lists, another is second in the lexical list only
C19_Witness ==
    /\ Returned /\ fusion.strategy = "rrf" /\ Len(fusion.results) = 2
    /\ RankIn(fusion.knn, fusion.results[1].id) = 1
    /\ RankIn(fusion.bm25, fusion.results[1].id) = 1
    /\ RankIn(fusion.knn, fusion.results[2].id) = 0
    /\ RankIn(fusion.bm25, fusion.results[2].id) = 2

\* C20: weighted fusion with keyword_weight = 0 and semantic_weight = 1 is
\* the normalized vector ranking: the returned list is the vector hit list in
\* rank order cut to size, and each fused score is the document's vector
\* score divided by the maximum vector score.
C20_VectorOnlyWeights ==
    (/\ Returned /\ fusion.strategy = "weighted" /\ fusion.size >= 0
     /\ fusion.keyword_weight = 0 /\ fusion.semantic_weight = 10)
    => /\ Ids(fusion.results) = Take(Ids(fusion.knn), fusion.size)
       /\ \A i \in 1..Len(fusion.results) :
             LET d == fusion.results[i]
                 rk == RankIn(fusion.knn, d.id)
             IN  /\ rk > 0
                 /\ FracEq(d.score, Frac(fusion.knn[rk].score, fusion.knn[1].score))

\* the vector list has one hit, size is 2, and a document that only the
\* lexical search found is returned second with fused score 0
C20_Witness ==
    /\ Returned /\ fusion.strategy = "weighted"
    /\ fusion.keyword_weight = 0 /\ fusion.semantic_weight = 10
    /\ Len(fusion.knn) = 1 /\ fusion.knn[1].score > 0 /\ fusion.size = 2
    /\ Len(fusion.results) = 2
    /\ fusion.results[1].id = fusion.knn[1].id
    /\ RankIn(fusion.knn, fusion.results[2].id) = 0
    /\ fusion.results[2].score.num = 0

\* C21: the returned list is in descending order of fused score and
\* documents with equal fused scores are in doc-id order, so the output for
\* given hit lists, weights, strategy and size is always the same.
C21_TiesInDocIdOrder ==
    Returned =>
        \A i, j \in 1..Len(fusion.results) :
            i < j =>
                /\ ~FracLess(fusion.results[i].score, fusion.results[j].score)
                /\ FracEq(fusion.results[i].score, fusion.results[j].score)
                   => RankIn(<<[id |-> "d1"], [id |-> "d2"], [id |-> "d3"]>>,
                             fusion.results[i].id)
                      < RankIn(<<[id |-> "d1"], [id |-> "d2"], [id |-> "d3"]>>,
                               fusion.results[j].id)

\* two documents with equal fused scores, of which only one fits into size,
\* and the one returned is the one with the greater id
C21_Witness ==
    /\ Returned /\ fusion.strategy = "rrf" /\ fusion.size = 1
    /\ Ids(fusion.knn) = <<"d1">> /\ Ids(fusion.bm25) = <<"d2">>
    /\ Ids(fusion.results) = <<"d2">>

-----------------------------------------------------------------------------
(* Single calls of functions of the agents package, with arbitrary         *)
(* arguments: the conversion loop and the reranking block of the agents,   *)
(* the query analysis, and the synthesis of an answer.                     *)

MaxRecords == 2

\* raw _score values a search or the synthetic dataset can hand to an agent,
\* in thousandths: 0, 0.3, 0.9, 10 and 25
RawScores == {0, 300, 900, 10000, 25000}

SourceTypes == {"pubmed", "clinical_trial", "fda_drug"}

\* result lists as the conversion loop receives them
RawLists ==
    UNION {{[i \in 1..n |-> [id |-> i, origin |-> o, score |-> s[i]]] :
               s \in [1..n -> RawScores], o \in {"live", "mock"}} :
           n \in 0..MaxRecords}

\* function fn has been entered with the arguments args
Entered(fn, args) ==
    call = [fn |-> fn, phase |-> "called", args |-> args, result |-> <<>>]

ConvertInputs ==
    \E rs \in RawLists, t \in SourceTypes :
        Entered("convert", [results |-> rs, source_type |-> t])

\* what one call of rerank_results meets: whether the service is initialised
\* and, when it is not, whether initialize() succeeds; and the reply of the
\* model: "error" - generate_content raises, "no_text" - the response has no
\* text, "not_json" - the text holds no parseable JSON, "not_scores" - the
\* JSON is not a list of objects with numeric scores, "scores" - a list of
\* {id, score} objects with scores 0.0 or 1.0, given as the map it is turned
\* into
RerankEnv ==
    {[initialized |-> i, initOk |-> o, reply |-> [kind |-> k, score_map |-> <<>>]] :
        i \in BOOLEAN, o \in BOOLEAN, k \in {"error", "no_text", "not_json", "not_scores"}}
    \cup
    {[initialized |-> i, initOk |-> o, reply |-> [kind |-> "scores", score_map |-> m]] :
        i \in BOOLEAN, o \in BOOLEAN,
        m \in UNION {[S -> {0, 10000}] : S \in SUBSET (1..MaxRecords)}}

\* out.sort(key=rerank_score, reverse=True): stable
RECURSIVE sort_by_rerank_score(_)
sort_by_rerank_score(s) ==
    IF s = <<>> THEN <<>>
    ELSE LET x == Head(s)
             t == sort_by_rerank_score(Tail(s))
             n == Cardinality({i \in 1..Len(t) : x.rerank_score < t[i].rerank_score})
         IN  SubSeq(t, 1, n) \o <<x>> \o SubSeq(t, n + 1, Len(t))

\* the merge of the scores into copies of the records
Merged(results, score_map) ==
    sort_by_rerank_score(
        [i \in 1..Len(results) |->
            [id |-> results[i].id, origin |-> results[i].origin,
             source_type |-> results[i].source_type,
             relevance_score |-> results[i].relevance_score,
             rerank_score |-> IF results[i].id \in DOMAIN score_map
                              THEN score_map[results[i].id]
                              ELSE results[i].relevance_score]])

\* a faulty rerank_results: a reply without usable scores counts as a reply
\* that scores no record
rerank_results_unguarded(results, r) ==
    IF ~r.initialized /\ ~r.initOk THEN [raised |-> TRUE, results |-> <<>>]
    ELSE IF results = <<>> THEN [raised |-> FALSE, results |-> results]
    ELSE [raised |-> FALSE, results |-> Merged(results, r.reply.score_map)]

\* VertexAIService.rerank_results: initialize() is called outside the try
\* block; every exception inside it ends in `return results`
rerank_results(results, r) ==
    IF ~r.initialized /\ ~r.initOk THEN [raised |-> TRUE, results |-> <<>>]
    ELSE IF results = <<>> THEN [raised |-> FALSE, results |-> results]
    ELSE IF r.reply.kind # "scores" THEN [raised |-> FALSE, results |-> results]
    ELSE [raised |-> FALSE, results |-> Merged(results, r.reply.score_map)]

\* the `if settings.VERTEX_AI_RERANK_ENABLED:` block of the agents; the
\* setting is off by default, which is the configuration the agents above
\* run with
rerank_block(search_results, enabled, r) ==
    LET o == rerank_results(search_results, r)
    IN  IF ~enabled THEN search_results
        ELSE IF o.raised THEN search_results
        ELSE o.results

RerankInputs ==
    \E rs \in RawLists, b \in BOOLEAN, r \in RerankEnv :
        Entered("rerank", [search_results |-> ConvertAll(rs, "pubmed"),
                           enabled |-> b, env |-> r])

\* query texts by the keyword classes they contain: a match of
\* CLINICAL_TRIAL_PATTERNS, a research keyword, a drug keyword
KeywordQueries ==
    {[kw |-> k, se |-> FALSE, ger |-> FALSE, pm |-> {}, dm |-> {}] :
        k \in SUBSET {"trial", "research", "drug"}}

HeuristicInputs ==
    \E q \in KeywordQueries : Entered("detect_intent", [query |-> q])

\* texts a reply can give as the expanded query
RewrittenTexts == {q \in KeywordQueries : q.kw = {} \/ q.kw = {"drug"}}

\* conversation_context: None, or a history of at least two messages
AnalyzeInputs ==
    \E q \in KeywordQueries, ctx \in {None, Some("history")},
       r \in AiEnv(RewrittenTexts) :
        Entered("analyze", [query |-> q, conversation_context |-> ctx, env |-> r])

\* each result list handed to the synthesis is None, empty, or one record
SynthesizeInputs ==
    LET ResultLists(sourceType) ==
            {None, Some(<<>>),
             Some(ConvertAll(<<[id |-> 1, origin |-> "live", score |-> 900]>>,
                             sourceType))}
    IN  \E q \in AllQueries, rr \in ResultLists("pubmed"),
           cr \in ResultLists("clinical_trial"), dr \in ResultLists("fda_drug"),
           e \in SynthEnv :
            Entered("synthesize",
                    [query |-> q, research_results |-> rr, clinical_results |-> cr,
                     drug_results |-> dr, env |-> e])

MaxScored == 6

\* relevance scores of the records handed to the confidence score: 0, 0.85, 1
RelValues == {0, 8500, 10000}

Scored(rel) == [id |-> 1, origin |-> "live", source_type |-> "pubmed",
                relevance_score |-> rel]

\* research results of up to MaxScored records, up to two clinical records
\* and up to one drug record; each list can also be None
ConfidenceInputs ==
    \E rr \in {None} \cup {Some([i \in 1..Len(s) |-> Scored(s[i])]) :
                              s \in UNION {[1..k -> RelValues] : k \in 0..MaxScored}},
       cr \in {None, Some(<<>>), Some(<<Scored(10000)>>),
               Some(<<Scored(10000), Scored(0)>>)},
       dr \in {None, Some(<<>>), Some(<<Scored(8500)>>)} :
        Entered("confidence", [research_results |-> rr, clinical_results |-> cr,
                               drug_results |-> dr])

MaxCount == 12

\* confidence and recency scores handed to the band, in hundredths
BandConfidences == {0, 30, 50, 60, 80, 90, 100}

BandRecencies == {0, 20, 50, 90, 100}

BandInputs ==
    \E c \in BandConfidences, n \in 0..MaxCount, r \in BandRecencies :
        Entered("band", [confidence_score |-> c, result_count |-> n,
                         recency_score |-> r])

MaxDated == 3

\* datetime.now().year
current_year == 2026

\* a character of a date string: a digit 0..9, or Dash for any other character
Dash == 10

Digits(y) == <<y \div 1000, (y \div 100) % 10, (y \div 10) % 10, y % 10>>

\* publication dates: none (""), "202", "n.d.", a date of next year, of this
\* year, of last year, a bare year five years back, dates 10 and 12 years back
PubDates ==
    {<<>>, <<2, 0, 2>>, <<Dash, Dash, Dash, Dash>>,
     Digits(current_year + 1) \o <<Dash, 0, 1>>,
     Digits(current_year) \o <<Dash, 0, 5, Dash, 0, 1>>,
     Digits(current_year - 1) \o <<Dash, 1, 2>>,
     Digits(current_year - 5),
     Digits(current_year - 10) \o <<Dash, 0, 1, Dash, 0, 1>>,
     Digits(current_year - 12)}

\* int(pub_date[:4]) of a date of at least four characters: None on ValueError
ParseYear(pub_date) ==
    IF \A i \in 1..4 : pub_date[i] # Dash
    THEN Some(1000 * pub_date[1] + 100 * pub_date[2] + 10 * pub_date[3] + pub_date[4])
    ELSE None

\* the score of one record in tenths, None when its date adds no score
RecordRecency(result) ==
    LET pub_date == result.publication_date IN
    IF pub_date = <<>> \/ Len(pub_date) < 4 \/ IsNone(ParseYear(pub_date)) THEN None
    ELSE Some(Max(10 - (current_year - ParseYear(pub_date)[1]), 0))

\* calculate_recency_score: the mean as an exact fraction
calculate_recency_score(results) ==
    LET scored == SelectSeq([i \in 1..Len(results) |-> RecordRecency(results[i])],
                            LAMBDA s : ~IsNone(s))
        recency_scores == [i \in 1..Len(scored) |-> scored[i][1]]
    IN  IF results = <<>> \/ recency_scores = <<>> THEN Frac(1, 2)
        ELSE Frac(SumSeq(recency_scores), 10 * Len(recency_scores))

RecencyInputs ==
    \E rs \in UNION {[1..k -> PubDates] : k \in 0..MaxDated} :
        Entered("recency", [results |-> [i \in 1..Len(rs) |-> [publication_date |-> rs[i]]]])

\* what one conflict detection meets: vertexUp - get_vertex_ai_service()
\* returns the service; kind - generate_chat_response raises ("error"), or its
\* text holds no {...} ("no_json"), a {...} that is no JSON ("bad_json") or a
\* JSON object with the keys it has ("json")
ConflictEnv ==
    {[vertexUp |-> v, kind |-> k, conflicts_detected |-> None, consensus_summary |-> None] :
        v \in BOOLEAN, k \in {"error", "no_json", "bad_json"}}
    \cup [vertexUp : BOOLEAN, kind : {"json"},
          conflicts_detected : {None, Some(TRUE), Some(FALSE)},
          consensus_summary : {None, Some("both sides")}]

ConflictOutput(conflicts, summary, calls) ==
    [raised |-> FALSE, conflicts_detected |-> conflicts, consensus_summary |-> summary,
     generate_calls |-> calls]

\* a faulty detect_conflicts: the reply is parsed outside the try
detect_conflicts_unguarded(research_results, clinical_results, drug_results, e) ==
    LET all_results == Take(OrEmpty(research_results), 5)
                       \o Take(OrEmpty(clinical_results), 3)
                       \o Take(OrEmpty(drug_results), 2)
    IN  IF Len(all_results) < 2 THEN ConflictOutput(FALSE, "", 0)
        ELSE IF ~e.vertexUp THEN ConflictOutput(FALSE, "", 0)
        ELSE IF e.kind = "error" THEN ConflictOutput(FALSE, "", 1)
        ELSE IF e.kind = "no_json" THEN ConflictOutput(FALSE, "", 1)
        ELSE IF e.kind = "bad_json" THEN [raised |-> TRUE]
        ELSE ConflictOutput(GetOr(e.conflicts_detected, FALSE),
                            GetOr(e.consensus_summary, ""), 1)

\* detect_conflicts; the calls of generate_chat_response made are counted
detect_conflicts(research_results, clinical_results, drug_results, e) ==
    LET all_results == Take(OrEmpty(research_results), 5)
                       \o Take(OrEmpty(clinical_results), 3)
                       \o Take(OrEmpty(drug_results), 2)
    IN  IF Len(all_results) < 2 THEN ConflictOutput(FALSE, "", 0)
        ELSE IF ~e.vertexUp THEN ConflictOutput(FALSE, "", 0)
        ELSE IF e.kind \in {"error", "no_json", "bad_json"} THEN ConflictOutput(FALSE, "", 1)
        ELSE ConflictOutput(GetOr(e.conflicts_detected, FALSE),
                            GetOr(e.consensus_summary, ""), 1)

ConflictInputs ==
    \E rr, cr, dr \in {None} \cup {Some([i \in 1..n |-> Scored(8500)]) : n \in 0..MaxRecords} :
        \E e \in ConflictEnv :
            Entered("conflicts", [research_results |-> rr, clinical_results |-> cr,
                                  drug_results |-> dr, env |-> e])

MaxCited == 6

\* a list of n records with distinct ids, ascending or descending
Numbered(n, ascending) ==
    [i \in 1..n |-> [Scored(8500) EXCEPT !.id = IF ascending THEN i ELSE n + 1 - i]]

\* up to MaxCited research records, up to MaxCited - 2 trial and drug records
CitationInputs ==
    \E rr \in {None} \cup {Some(Numbered(n, a)) : n \in 0..MaxCited, a \in BOOLEAN},
       cr, dr \in {None} \cup {Some(Numbered(n, a)) : n \in 0..(MaxCited - 2), a \in BOOLEAN} :
        Entered("citations", [research_results |-> rr, clinical_results |-> cr,
                              drug_results |-> dr])

\* what analyze_query_async hands to _analyze_query_node: an exception, or an
\* analysis with one of the four intents
RouteInputs ==
    \E q \in RewrittenTexts :
        \E o \in {[raised |-> TRUE]}
                 \cup {QueryAnalysisOutput(i, "regex", 60, agents_for(i), Some(q), "heuristic") :
                          i \in Intents} :
            Entered("route", [query |-> q, analysis |-> o])

\* conversation histories a search_start payload can carry
Histories == {<<>>, <<"earlier question">>}

\* json.dumps(filters, sort_keys=True) if filters else ""
filter_str(filters) == IF filters \in {"None", "{}"} THEN "" ELSE filters

\* the key of get_search_result and set_search_result: the hash of the query
\* followed by the filter string, taken as free of collisions
search_key(query, filters) == <<query, filter_str(filters)>>

\* search_start payloads: query, filters and messages
StartPayloads ==
    [query : RewrittenTexts, filters : {"None", "year_range"}, messages : Histories]

\* an entry of the result cache: the JSON object stored under key, the
\* payload its answer was computed for and who wrote it
CacheEntry(key, success, resp, cits, conf, payload, writer) ==
    [key |-> key, success |-> success, final_response |-> resp, citations |-> cits,
     confidence_score |-> conf, computed_for |-> payload, writer |-> writer]

\* the cache a request can meet: empty, or holding under the key of p an
\* entry written earlier by another writer: a valid one, or one with success
\* false, an empty response, no citation list, an empty one, or confidence 0
FoundCaches(p) ==
    LET cits == <<Citation(Scored(8500), "pubmed")>>
        E(success, resp, c, conf) ==
            <<CacheEntry(search_key(p.query, p.filters), success, resp, c, conf, p, "other")>>
    IN  {<<>>, E(TRUE, "generated", Some(cits), 36), E(FALSE, "generated", Some(cits), 36),
         E(TRUE, "", Some(cits), 36), E(TRUE, "generated", None, 36),
         E(TRUE, "generated", Some(<<>>), 36), E(TRUE, "generated", Some(cits), 0)}

\* two search_start requests handled one after the other
SearchStartInputs ==
    \E p1, p2 \in StartPayloads : \E cache \in FoundCaches(p1) :
        call = [fn |-> "search_start", phase |-> "called",
                args |-> [pending |-> <<p1, p2>>],
                result |-> [cache |-> cache, served |-> <<>>]]

CallInputs ==
    \/ ConvertInputs
    \/ RerankInputs
    \/ HeuristicInputs
    \/ AnalyzeInputs
    \/ SynthesizeInputs
    \/ ConfidenceInputs
    \/ BandInputs
    \/ RecencyInputs
    \/ ConflictInputs
    \/ CitationInputs
    \/ RouteInputs
    \/ SearchStartInputs

\* one call of one function; the rest of the program is not started
InitCalls ==
    /\ CallInputs
    /\ fusion = NoFusion
    /\ conns = {} /\ outage = FALSE /\ queries = {}
    /\ esSvc = "none" /\ redisSvc = "none" /\ vertexSvc = "none"
    /\ embCache = [q \in {} |-> "none"]
    /\ resCache = "absent" /\ db = NoRow /\ maxResults = 1
    /\ pc = [c \in AllConns |-> "new"]
    /\ wf = [c \in AllConns |-> NoWf]
    /\ emitted = [c \in AllConns |-> <<>>]
    /\ cancels = [c \in AllConns |-> 0]

Called(fn) == call.fn = fn /\ call.phase = "called"

Return(value) ==
    /\ call' = [call EXCEPT !.phase = "returned", !.result = value]
    /\ UNCHANGED <<fusion, esSvc, redisSvc, vertexSvc, embCache, resCache, db,
                   conns, queries, maxResults, outage, pc, wf, emitted, cancels>>

\* the `for result in results:` loop of an agent returns its records
ConvertRecords ==
    /\ Called("convert")
    /\ Return(ConvertAll(call.args.results, call.args.source_type))

\* the reranking block of an agent runs and the agent returns its records
Rerank ==
    /\ Called("rerank")
    /\ Return(rerank_block(call.args.search_results, call.args.enabled, call.args.env))

\* detect_intent_heuristic returns
DetectIntent ==
    /\ Called("detect_intent")
    /\ Return(detect_intent_heuristic(call.args.query))

\* analyze_query_async returns; the service singleton does not exist yet
AnalyzeCall ==
    /\ Called("analyze")
    /\ Return(analyze_query_async(call.args.query, call.args.conversation_context,
                                  call.args.env.vertexUp, call.args.env))

\* synthesize_results returns to the synthesize node, which runs after the
\* analysis step has created the Vertex AI service
SynthesizeCall ==
    /\ Called("synthesize")
    /\ Return(synthesize_results(call.args.query, call.args.research_results,
                                 call.args.clinical_results, call.args.drug_results,
                                 call.args.env))

\* calculate_confidence_score returns
ConfidenceCall ==
    /\ Called("confidence")
    /\ Return(calculate_confidence_score(call.args.research_results,
                                         call.args.clinical_results,
                                         call.args.drug_results))

\* get_confidence_band returns
BandCall ==
    /\ Called("band")
    /\ Return(get_confidence_band(call.args.confidence_score, call.args.result_count,
                                  call.args.recency_score))

\* calculate_recency_score returns
RecencyCall ==
    /\ Called("recency")
    /\ Return(calculate_recency_score(call.args.results))

\* detect_conflicts returns
ConflictCall ==
    /\ Called("conflicts")
    /\ Return(detect_conflicts(call.args.research_results, call.args.clinical_results,
                               call.args.drug_results, call.args.env))

\* extract_citations returns; None lists are taken as empty
ExtractCall ==
    /\ Called("citations")
    /\ Return(extract_citations(OrEmpty(call.args.research_results),
                                OrEmpty(call.args.clinical_results),
                                OrEmpty(call.args.drug_results)))

\* the nodes app.astream runs from node on, for the intent in the state
RECURSIVE NodesFrom(_, _)
NodesFrom(node, intent) ==
    IF node = "END" THEN <<>>
    ELSE <<node>> \o NodesFrom(next_node(node, intent), intent)

\* execute, from the analysis node to END: the nodes run, in order
RouteCall ==
    /\ Called("route")
    /\ LET state == Step(_analyze_query_node(initial_state(call.args.query),
                                             call.args.analysis), "analyze_query")
       IN  Return([intent |-> state.intent, errors |-> state.errors,
                   nodes |-> <<"analyze_query">> \o NodesFrom(state.next, state.intent)])

\* the final states workflow.execute can return for query q: synthesis of no
\* record, of one record or of one record of relevance 0, with the
\* generation call succeeding or failing, or a failure of the synthesis node
FinalStates(q) ==
    {_synthesize_node(initial_state(q), o) :
        o \in {[raised |-> TRUE]}
              \cup {synthesize_results(q, Some(rs), None, None, e) :
                      rs \in {<<>>, <<Scored(8500)>>, <<Scored(0)>>},
                      e \in {x \in SynthEnv : x.covered /\ x.counts = [up |-> TRUE, ok |-> Sources]}}}

\* RedisService.get_search_result: the entry under key, None when there is none
get_search_result(cache, key) ==
    IF \E i \in 1..Len(cache) : cache[i].key = key
    THEN Some(cache[CHOOSE i \in 1..Len(cache) : cache[i].key = key])
    ELSE None

\* the cache without the entry under key
Without(cache, key) == SelectSeq(cache, LAMBDA x : x.key # key)

\* handle_search_start seen from the result cache: a successful entry under
\* the key of the payload is served when it has a response, a citation list
\* and a positive confidence, and invalidated otherwise; then workflow.execute
\* computes the answer from query, filters and messages, and set_search_result
\* stores it when is_successful holds. len(citations) raises on a final state
\* without citation list, before anything is stored.
SearchStart ==
    /\ Called("search_start")
    /\ \E redisDelOk \in BOOLEAN, redisSetOk \in BOOLEAN :
       \E final_state \in FinalStates(Head(call.args.pending).query) :
       LET p == Head(call.args.pending)
           key == search_key(p.query, p.filters)
           cached_result == get_search_result(call.result.cache, key)
           checked == ~IsNone(cached_result) /\ cached_result[1].success
           serve == /\ checked
                    /\ cached_result[1].final_response # ""
                    /\ ~IsNone(cached_result[1].citations)
                    /\ cached_result[1].confidence_score > 0
           swept == IF checked /\ ~serve /\ redisDelOk
                    THEN Without(call.result.cache, key) ELSE call.result.cache
           store == ~IsNone(final_state.citations) /\ is_successful(final_state) /\ redisSetOk
           cache == IF serve THEN call.result.cache
                    ELSE IF store
                    THEN Append(Without(swept, key),
                                CacheEntry(key, TRUE, final_state.final_response,
                                           final_state.citations,
                                           final_state.confidence_score[1], p, "handler"))
                    ELSE swept
       IN  call' = [call EXCEPT
                !.phase = IF Len(call.args.pending) = 1 THEN "returned" ELSE "called",
                !.args.pending = Tail(@),
                !.result.cache = cache,
                !.result.served =
                    Append(@, [payload |-> p, found |-> cached_result,
                               from |-> IF serve THEN "cache" ELSE "workflow",
                               final_response |-> IF serve THEN cached_result[1].final_response
                                                  ELSE final_state.final_response,
                               cache |-> cache])]
    /\ UNCHANGED <<fusion, esSvc, redisSvc, vertexSvc, embCache, resCache, db,
                   conns, queries, maxResults, outage, pc, wf, emitted, cancels>>

NextCalls ==
    \/ ConvertRecords
    \/ Rerank
    \/ DetectIntent
    \/ AnalyzeCall
    \/ SynthesizeCall
    \/ ConfidenceCall
    \/ BandCall
    \/ RecencyCall
    \/ ConflictCall
    \/ ExtractCall
    \/ RouteCall
    \/ SearchStart

SpecCalls == InitCalls /\ [][NextCalls]_vars

ReturnedFrom(fn) == call.fn = fn /\ call.phase = "returned"

\* C22: every record an agent builds, from live hits or from the synthetic
\* dataset, carries the raw score divided by ten where that is at most 1,
\* and 1 otherwise; the value lies between 0 and 1.
C22_RelevanceScaledAndClamped ==
    ReturnedFrom("convert") =>
        /\ Len(call.result) = Len(call.args.results)
        /\ \A i \in 1..Len(call.result) :
              LET raw == call.args.results[i].score
                  rel == call.result[i].relevance_score
              IN  /\ raw <= 10000 => rel = raw
                  /\ raw > 10000 => rel = 10000
                  /\ rel >= 0 /\ rel <= 10000

\* a live hit with raw score 25 was converted to a record with relevance 1
C22_Witness ==
    /\ ReturnedFrom("convert") /\ Len(call.result) = 1
    /\ call.args.results[1].origin = "live"
    /\ call.args.results[1].score = 25000
    /\ call.result[1].relevance_score = 10000

RerankFailed(r) == (~r.initialized /\ ~r.initOk) \/ r.reply.kind # "scores"

C24_HeuristicPriority ==
    ReturnedFrom("detect_intent") =>
        LET kw == call.args.query.kw IN
        /\ "trial" \in kw => call.result = "clinical_trial"
        /\ ("trial" \notin kw /\ "research" \in kw) => call.result = "research"
        /\ (kw = {"drug"}) => call.result = "drug_info"
        /\ (kw = {}) => call.result = "general"

\* a query with keywords of all three vocabularies was classified as
\* clinical_trial
C24_Witness ==
    /\ ReturnedFrom("detect_intent")
    /\ call.args.query.kw = {"trial", "research", "drug"}
    /\ call.result = "clinical_trial"

\* the AI path failed: the service or the call raised, the reply holds no
\* parseable JSON, or a field is outside the schema
AiFailed(r) ==
    \/ ~r.vertexUp
    \/ r.kind # "json"
    \/ r.kind = "json" /\ (\/ r.data.intent = Some("other")
                           \/ r.data.confidence = Some(-5)
                           \/ r.data.confidence = Some(150))

\* C25: the analysis never fails because of the AI path.  It always returns
\* an intent among the four and a confidence in [0, 1], and when the AI path
\* failed the intent and the entities are those the heuristic computes for
\* the same query.
C25_RouterNeverFails ==
    ReturnedFrom("analyze") =>
        /\ ~call.result.raised
        /\ call.result.intent \in Intents
        /\ call.result.confidence >= 0 /\ call.result.confidence <= 100
        /\ AiFailed(call.args.env) =>
              /\ call.result.intent = detect_intent_heuristic(call.args.query)
              /\ call.result.entities = "regex"

\* the reply classified a drug query with an intent outside the schema and
\* the analysis returned drug_info
C25_Witness ==
    /\ ReturnedFrom("analyze") /\ call.args.env.vertexUp
    /\ call.args.env.kind = "json" /\ call.args.env.data.intent = Some("other")
    /\ call.args.query.kw = {"drug"}
    /\ call.result.intent = "drug_info" /\ call.result.entities = "regex"

\* the agents the workflow runs for an intent
AgentsRun(intent) ==
    SubSeq(ExpectedSteps(intent), 2, Len(ExpectedSteps(intent)) - 1)

\* C26: on every path of the analysis the suggested agents are those of the
\* returned intent (research: the research agent; clinical_trial: the
\* clinical agent; drug_info: the drug agent; general: all three, research
\* first), which are the agents the workflow runs for that intent.
C26_AgentsFollowIntent ==
    ReturnedFrom("analyze") =>
        /\ call.result.suggested_agents = AgentsRun(call.result.intent)
        /\ call.result.intent = "general" =>
              call.result.suggested_agents = AllAgents

\* the AI call raised on a drug query: the analysis returned drug_info with
\* the research agent as the only suggested agent
C26_Witness ==
    /\ ReturnedFrom("analyze") /\ call.args.env.vertexUp
    /\ call.args.env.kind = "error"
    /\ call.args.query.kw = {"drug"}
    /\ call.result.intent = "drug_info"
    /\ call.result.suggested_agents = <<"research_agent">>

\* C27: an analysis made without conversation context returns the original
\* query text as the expanded query, so the query the analysis step writes
\* into the workflow state for the following steps is the original one.
C27_NoContextKeepsQuery ==
    (ReturnedFrom("analyze") /\ IsNone(call.args.conversation_context)) =>
        /\ GetOr(call.result.expanded_query, call.args.query) = call.args.query
        /\ _analyze_query_node(initial_state(call.args.query), call.result).query
           = call.args.query

\* without context, a valid reply carried another text as expanded_query,
\* and that text became the query of the workflow state
C27_Witness ==
    /\ ReturnedFrom("analyze") /\ IsNone(call.args.conversation_context)
    /\ call.result.path = "ai"
    /\ ~IsNone(call.result.expanded_query)
    /\ call.result.expanded_query[1].kw = {"drug"}
    /\ call.args.query.kw = {}
    /\ _analyze_query_node(initial_state(call.args.query), call.result).query.kw
       = {"drug"}

AgentAndSynthesisNodes == {"research_agent", "clinical_agent", "drug_agent", "synthesize"}

\* C28: only the analysis step writes query, intent and entities.  A step of
\* an agent node or of the synthesis node leaves the three fields of the
\* workflow state as the analysis step wrote them, so every one of these
\* steps reads the query the analysis produced.
C28_OnlyAnalysisWritesQuery ==
    [][\A c \in AllConns :
          (/\ pc[c] = "workflow" /\ wf[c].next \in AgentAndSynthesisNodes
           /\ wf'[c] # NoWf)
          => /\ wf'[c].query = wf[c].query
             /\ wf'[c].intent = wf[c].intent
             /\ wf'[c].entities = wf[c].entities
             /\ wf[c].intent \in Intents
             /\ wf[c].entities \in {"regex", "ai"}]_vars

\* a general execution whose query was rewritten by the analysis ran all
\* three agents and the synthesis on the rewritten query
C28_Witness ==
    \E c \in AllConns :
        /\ Running(c) /\ wf[c].next = "END"
        /\ wf[c].visited = ExpectedSteps("general")
        /\ wf[c].intent = "general" /\ wf[c].entities = "ai"
        /\ wf[c].query # db.query

\* C29: when the result sets handed to the synthesis hold no record in
\* total, the outcome is the designed one and not an error: confidence 0.0,
\* no citation, a response reporting the size of each source's corpus (0 for
\* a source that cannot be counted), no generation call, and nothing added to
\* the errors of the workflow state.
C29_NoEvidenceOutcome ==
    (/\ ReturnedFrom("synthesize")
     /\ Len(OrEmpty(call.args.research_results))
        + Len(OrEmpty(call.args.clinical_results))
        + Len(OrEmpty(call.args.drug_results)) = 0)
    => LET o == call.result
           co == call.args.env.counts
           state == _synthesize_node(initial_state(call.args.query), o)
       IN  /\ ~o.raised
           /\ o.final_response = "no_results"
           /\ o.confidence_score = 0
           /\ o.citations = <<>>
           /\ o.generate_calls = 0
           /\ DOMAIN o.index_counts = Sources
           /\ \A k \in Sources :
                 o.index_counts[k] = IF co.up /\ k \in co.ok THEN CorpusSize[k] ELSE 0
           /\ state.errors = <<>>
           /\ state.current_step = "synthesis"
           /\ state.confidence_score = Some(0)
           /\ state.citations = Some(<<>>)

\* no agent ran for research, the clinical agent returned no record, and only
\* the PubMed index could be counted
C29_Witness ==
    /\ ReturnedFrom("synthesize")
    /\ IsNone(call.args.research_results)
    /\ call.args.clinical_results = Some(<<>>)
    /\ IsNone(call.args.drug_results)
    /\ call.args.env.counts = [up |-> TRUE, ok |-> {"pubmed"}]
    /\ call.args.env.generateOk
    /\ call.result.final_response = "no_results"
    /\ call.result.index_counts = [pubmed |-> 5, trials |-> 0, drugs |-> 0]

\* all records handed to the call
ScoredRecords ==
    OrEmpty(call.args.research_results) \o OrEmpty(call.args.clinical_results)
    \o OrEmpty(call.args.drug_results)

RelevanceSum == SumSeq([i \in 1..Len(ScoredRecords) |-> ScoredRecords[i].relevance_score])

\* min(n/10, 0.7) + 0.3 * average relevance, in hundredths, as the fraction
\* ExactNum / ExactDen
ExactNum == Min(10 * Len(ScoredRecords), 70) * 1000 * Len(ScoredRecords) + 3 * RelevanceSum
ExactDen == 1000 * Len(ScoredRecords)

\* the score is 0.0 without records, lies in [0, 1], does not decrease when
\* one record's relevance is raised (same count, greater average) and does
\* not decrease when every list is doubled (same average, greater count)
ZeroRangeMonotone ==
    LET rr == OrEmpty(call.args.research_results)
        cr == call.args.clinical_results
        dr == call.args.drug_results
    IN  /\ Len(ScoredRecords) = 0 => call.result = 0
        /\ call.result >= 0 /\ call.result <= 100
        /\ \A i \in 1..Len(rr) : \A v \in RelValues :
              v > rr[i].relevance_score =>
                 calculate_confidence_score(
                     Some([rr EXCEPT ![i].relevance_score = v]), cr, dr)
                 >= call.result
        /\ calculate_confidence_score(Some(rr \o rr), Some(OrEmpty(cr) \o OrEmpty(cr)),
                                      Some(OrEmpty(dr) \o OrEmpty(dr)))
           >= call.result

\* C30 as stated: calculate_confidence_score returns exactly 0.0 without
\* records, returns min(n/10, 0.7) + 0.3 * average relevance, which lies in
\* [0, 1], and is non-decreasing in the count and in the average relevance.
C30_ConfidenceFormula ==
    ReturnedFrom("confidence") =>
        /\ ZeroRangeMonotone
        /\ Len(ScoredRecords) > 0 => call.result * ExactDen = ExactNum

\* C30 amended: calculate_confidence_score returns exactly 0.0 without
\* records, returns min(n/10, 0.7) + 0.3 * average relevance rounded to two
\* decimals (at most half a hundredth away from it), which lies in [0, 1],
\* and is non-decreasing in the count and in the average relevance.
C30_ConfidenceRounded ==
    ReturnedFrom("confidence") =>
        /\ ZeroRangeMonotone
        /\ Len(ScoredRecords) > 0 =>
              /\ 2 * (call.result * ExactDen - ExactNum) <= ExactDen
              /\ 2 * (ExactNum - call.result * ExactDen) <= ExactDen

\* one record of relevance 0.85: 0.1 + 0.255 = 0.355 was returned as 0.36
C30_Witness ==
    /\ ReturnedFrom("confidence")
    /\ call.args.research_results = Some(<<Scored(8500)>>)
    /\ IsNone(call.args.clinical_results) /\ call.args.drug_results = Some(<<>>)
    /\ call.result = 36

BandRank(band) == CASE band = "Low" -> 0 [] band = "Medium" -> 1 [] band = "High" -> 2

\* 0.5*confidence + 0.3*min(count/10, 1) + 0.2*recency, in thousandths
WeightedScore(c, n, r) == 5 * c + 3 * (IF n >= 10 THEN 100 ELSE 10 * n) + 2 * r

\* C31: get_confidence_band returns High iff the weighted score
\* 0.5*confidence + 0.3*min(count/10, 1) + 0.2*recency is at least 0.7,
\* Medium iff it is in [0.4, 0.7) and Low iff it is below 0.4; (0.9, 10, 0.9)
\* is High, (0.6, 5, 0.5) Medium and (0.3, 2, 0.2) Low; and raising any one of
\* the three inputs never lowers the band.
C31_BandThresholds ==
    ReturnedFrom("band") =>
        LET c == call.args.confidence_score
            n == call.args.result_count
            r == call.args.recency_score
            w == WeightedScore(c, n, r)
        IN  /\ call.result = "High" <=> w >= 700
            /\ call.result = "Medium" <=> (w >= 400 /\ w < 700)
            /\ call.result = "Low" <=> w < 400
            /\ (c = 90 /\ n = 10 /\ r = 90) => call.result = "High"
            /\ (c = 60 /\ n = 5 /\ r = 50) => call.result = "Medium"
            /\ (c = 30 /\ n = 2 /\ r = 20) => call.result = "Low"
            /\ \A c2 \in BandConfidences : c2 > c =>
                  BandRank(get_confidence_band(c2, n, r)) >= BandRank(call.result)
            /\ \A n2 \in 0..(MaxCount + 1) : n2 > n =>
                  BandRank(get_confidence_band(c, n2, r)) >= BandRank(call.result)
            /\ \A r2 \in BandRecencies : r2 > r =>
                  BandRank(get_confidence_band(c, n, r2)) >= BandRank(call.result)

\* confidence 0.5, 12 results, recency 0.5: the count weighs as ten results,
\* the weighted score is 0.65 and the band Medium
C31_Witness ==
    /\ ReturnedFrom("band")
    /\ call.args = [confidence_score |-> 50, result_count |-> 12, recency_score |-> 50]
    /\ call.result = "Medium"

\* the year a date states, None when its first four characters are no year
StatedYear(d) ==
    IF Len(d) >= 4 /\ (\A i \in 1..4 : d[i] \in 0..9)
    THEN Some(1000 * d[1] + 100 * d[2] + 10 * d[3] + d[4]) ELSE None

\* what a record of that year scores, in tenths: max(1 - 0.1 * y, 0)
YearScore(year) ==
    IF current_year - year >= 10 THEN 0 ELSE 10 - (current_year - year)

\* C32: the recency score is in [0, 1] for every list of records; it is the
\* mean, over the records whose date has a parseable year, of
\* max(1 - 0.1 * y, 0) for a record y years old (1.0 for the current year, 0.0
\* from ten years on, never negative), and 0.5 when no record has such a date.
C32_RecencyInUnitInterval ==
    ReturnedFrom("recency") =>
        LET rs == call.args.results
            dated == {i \in 1..Len(rs) : ~IsNone(StatedYear(rs[i].publication_date))}
            total == SumSeq([i \in 1..Len(rs) |->
                               IF i \in dated
                               THEN YearScore(StatedYear(rs[i].publication_date)[1])
                               ELSE 0])
        IN  /\ call.result.num >= 0 /\ call.result.num <= call.result.den
            /\ dated = {} => FracEq(call.result, Frac(1, 2))
            /\ dated # {} => FracEq(call.result, Frac(total, 10 * Cardinality(dated)))

\* one record dated next year: the score returned is 1.1
C32_Witness ==
    /\ ReturnedFrom("recency")
    /\ Len(call.args.results) = 1
    /\ StatedYear(call.args.results[1].publication_date) = Some(current_year + 1)
    /\ call.result = Frac(11, 10)

\* the records conflict detection looks at
Considered ==
    Min(5, Len(OrEmpty(call.args.research_results)))
    + Min(3, Len(OrEmpty(call.args.clinical_results)))
    + Min(2, Len(OrEmpty(call.args.drug_results)))

NoConflict ==
    /\ call.result.conflicts_detected = FALSE
    /\ call.result.consensus_summary = ""

\* C33: detect_conflicts never raises; it returns (False, "") when the
\* generation backend is unreachable or fails or its output holds no parseable
\* JSON object; and with fewer than two records considered it returns
\* (False, "") without calling the backend.
C33_ConflictsAdvisory ==
    ReturnedFrom("conflicts") =>
        /\ ~call.result.raised
        /\ (~call.args.env.vertexUp \/ call.args.env.kind # "json") => NoConflict
        /\ Considered < 2 => (NoConflict /\ call.result.generate_calls = 0)

\* two records, the reply holds braces that are no JSON: (False, "") after
\* one call of the backend
C33_Witness ==
    /\ ReturnedFrom("conflicts")
    /\ Considered >= 2
    /\ call.args.env.vertexUp /\ call.args.env.kind = "bad_json"
    /\ ~call.result.raised /\ NoConflict /\ call.result.generate_calls = 1

\* the execution on c has ended with the response built when the synthesis
\* generation call failed on a non-empty result set
DegradedSynthesis(c) ==
    /\ Running(c) /\ wf[c].next = "END"
    /\ TotalResults(wf[c]) # 0
    /\ wf[c].final_response = "fallback"

\* C34: when results exist but the synthesis generation call fails, the final
\* state of the execution carries no error and the degraded outcome: the
\* citations extracted from the results, the confidence max(confidence - 0.2, 0)
\* and the Low confidence band.
C34_DegradedOutcomeCarried ==
    \A c \in AllConns :
        DegradedSynthesis(c) =>
            /\ wf[c].errors = <<>>
            /\ wf[c].citations =
                  Some(extract_citations(OrEmpty(wf[c].research_results),
                                         OrEmpty(wf[c].clinical_results),
                                         OrEmpty(wf[c].drug_results)))
            /\ wf[c].confidence_score =
                  Some(Max(calculate_confidence_score(wf[c].research_results,
                                                      wf[c].clinical_results,
                                                      wf[c].drug_results) - 20, 0))
            /\ "confidence_band" \in DOMAIN wf[c]
            /\ wf[c].confidence_band = "Low"

\* the degraded outcome with its citations and lowered confidence, and no
\* confidence band in the final state
C34_Witness ==
    \E c \in AllConns :
        /\ DegradedSynthesis(c)
        /\ wf[c].errors = <<>>
        /\ wf[c].citations # Some(<<>>)
        /\ wf[c].confidence_score =
              Some(Max(calculate_confidence_score(wf[c].research_results,
                                                  wf[c].clinical_results,
                                                  wf[c].drug_results) - 20, 0))
        /\ "confidence_band" \notin DOMAIN wf[c]

\* citation i of the result is record j of the list rs, tagged tag
CitesRecord(i, rs, j, tag) ==
    /\ call.result[i].id = rs[j].id
    /\ call.result[i].relevance_score = rs[j].relevance_score
    /\ call.result[i].source_type = tag

\* C35: extract_citations returns exactly min(5, |R|) literature citations,
\* then min(3, |C|) trial citations, then min(3, |D|) formulary citations,
\* each group in input order and tagged pubmed, clinical_trial and fda_drug;
\* None counts as an empty list.
C35_CitationsCappedInOrder ==
    ReturnedFrom("citations") =>
        LET R == OrEmpty(call.args.research_results)
            C == OrEmpty(call.args.clinical_results)
            D == OrEmpty(call.args.drug_results)
            r == IF Len(R) > 5 THEN 5 ELSE Len(R)
            c == IF Len(C) > 3 THEN 3 ELSE Len(C)
            d == IF Len(D) > 3 THEN 3 ELSE Len(D)
        IN  /\ Len(call.result) = r + c + d
            /\ \A i \in 1..r : CitesRecord(i, R, i, "pubmed")
            /\ \A i \in 1..c : CitesRecord(r + i, C, i, "clinical_trial")
            /\ \A i \in 1..d : CitesRecord(r + c + i, D, i, "fda_drug")

\* six research records, no trial list and four drug records in descending
\* order of id: five and three citations
C35_Witness ==
    /\ ReturnedFrom("citations")
    /\ call.args.research_results = Some(Numbered(6, TRUE))
    /\ IsNone(call.args.clinical_results)
    /\ call.args.drug_results = Some(Numbered(4, FALSE))
    /\ Len(call.result) = 8
    /\ call.result[6].id = 4 /\ call.result[8].id = 2

\* _route_after_analysis returned "all": the intent is none of research,
\* clinical_trial and drug_info
AllBranch == call.result.intent \notin {"research", "clinical_trial", "drug_info"}

\* C36: whenever the routing after query analysis takes the 'all' branch,
\* also when query analysis failed and no intent was stored, the execution
\* runs research_agent, clinical_agent and drug_agent, in that order, before
\* synthesize.
C36_AllBranchRunsEveryAgent ==
    (ReturnedFrom("route") /\ AllBranch) =>
        call.result.nodes = <<"analyze_query", "research_agent", "clinical_agent",
                              "drug_agent", "synthesize">>

\* query analysis failed, no intent was stored: the research agent ran and
\* then the synthesis
C36_Witness ==
    /\ ReturnedFrom("route")
    /\ call.args.analysis.raised
    /\ call.result.intent = "None" /\ call.result.errors # <<>>
    /\ call.result.nodes = <<"analyze_query", "research_agent", "synthesize">>

Sent(c, type) == \E i \in 1..Len(emitted[c]) : emitted[c][i].type = type

\* handle_search_start has returned on c
SearchEnded(c) == pc[c] \in {"listening", "closed"}

\* no cancellation was handled, so that only handle_search_start wrote the
\* status of the session
NoCancel == \A c \in AllConns : cancels[c] = 0

\* C37: the persisted status of the session agrees with the terminal event
\* sent for it: completed once search_complete was emitted (after a workflow
\* run or from the result cache), failed once search_error was emitted, and
\* never processing once the search has ended.
C37_StatusAgreesWithTerminalEvent ==
    NoCancel =>
        \A c \in AllConns :
            /\ Sent(c, "search_complete") => db.status = "completed"
            /\ Sent(c, "search_error") => db.status = "failed"
            /\ SearchEnded(c) => db.status # "processing"

\* the answer was served from the result cache and the search has ended:
\* the session is still in status processing
C37_Witness ==
    /\ NoCancel
    /\ \E c \in AllConns :
        /\ SearchEnded(c)
        /\ emitted[c] = <<Event("search_progress", 0), Event("search_complete", 0)>>
        /\ db.status = "processing"

\* C38: an answer is served from the result cache only to a request for
\* which the workflow would have computed it: of two requests with the same
\* query and filters and different conversation histories, neither receives
\* the answer cached for the other.
C38_CacheIsolatesHistories ==
    ReturnedFrom("search_start") =>
        \A i \in 1..Len(call.result.served) :
            LET s == call.result.served[i] IN
            s.from = "cache" =>
                /\ s.found[1].computed_for.query = s.payload.query
                /\ filter_str(s.found[1].computed_for.filters) = filter_str(s.payload.filters)
                /\ s.found[1].computed_for.messages = s.payload.messages

\* the second request, with a history, was served the answer the workflow
\* computed for the first, which had none
C38_Witness ==
    /\ ReturnedFrom("search_start")
    /\ call.result.served[1].from = "workflow"
    /\ call.result.served[1].payload.messages = <<>>
    /\ call.result.served[2].from = "cache"
    /\ call.result.served[2].payload.messages = <<"earlier question">>
    /\ call.result.served[2].found[1].writer = "handler"
    /\ call.result.served[2].found[1].computed_for = call.result.served[1].payload

\* the checks of a successful answer: success is true, the response is
\* non-empty, the confidence is positive and the citation list is non-empty
ValidEntry(e) ==
    /\ e.success
    /\ e.final_response # ""
    /\ e.confidence_score > 0
    /\ ~IsNone(e.citations) /\ Len(e.citations[1]) > 0

\* the entries the handler wrote are successful answers, and none of them is
\* a no-evidence or a synthesis-error outcome
WrittenEntriesValid ==
    \A i \in 1..Len(call.result.served) :
        LET cache == call.result.served[i].cache IN
        \A k \in 1..Len(cache) :
            cache[k].writer = "handler" =>
                /\ ValidEntry(cache[k])
                /\ cache[k].final_response \notin {"no_results", "synthesis_error"}

\* C39: every entry written to the result cache is a successful answer
\* (success true, response non-empty, confidence positive, citation list
\* non-empty), never a no-evidence or synthesis-error outcome; and a cached
\* entry that fails these checks on read is deleted and the workflow is run
\* instead of serving it.
C39_CacheHoldsOnlySuccessfulAnswers ==
    ReturnedFrom("search_start") =>
        /\ WrittenEntriesValid
        /\ \A i \in 1..Len(call.result.served) :
               LET s == call.result.served[i] IN
               (~IsNone(s.found) /\ ~ValidEntry(s.found[1])) =>
                   /\ s.from = "workflow"
                   /\ \A k \in 1..Len(s.cache) : s.cache[k] # s.found[1]

\* a cached entry with an empty citation list was read and served
C39_Witness ==
    /\ ReturnedFrom("search_start")
    /\ ~IsNone(call.result.served[1].found)
    /\ call.result.served[1].found[1].citations = Some(<<>>)
    /\ call.result.served[1].from = "cache"
    /\ call.result.served[1].final_response = call.result.served[1].found[1].final_response

\* the terminal events of a search
TerminalTypes == {"search_complete", "search_error"}

\* the positions of the terminal events among those issued on c
Terminals(c) == {i \in 1..Len(emitted[c]) : emitted[c][i].type \in TerminalTypes}

\* no search_progress event follows a terminal event on c
NoProgressAfterTerminal(c) ==
    \A i \in Terminals(c) : \A j \in (i + 1)..Len(emitted[c]) :
        emitted[c][j].type # "search_progress"

\* handle_search_start runs on c
Invoked(c) == pc[c] \in {"start", "workflow", "persisted"}

\* workflow.execute runs on c and has a node left to run
NodePending(c) == pc[c] = "workflow" /\ wf[c].next # "END"

\* a node of the workflow ran on c
NodeRan(c) == NodePending(c) /\ Len(wf'[c].visited) = Len(wf[c].visited) + 1

\* the event loop runs the coroutine of handle_search_start to its end: every
\* awaited step of the handler returns or raises, and so does every node of
\* the workflow. The second conjunct is weak fairness of the node steps,
\* which are enabled exactly when NodePending(c) holds.
HandlerFairness(c) ==
    /\ WF_vars(HandleSearchStart(c) \/ PersistResult(c) \/ CompleteSearch(c))
    /\ ([]<>~NodePending(c) \/ []<><<NodeRan(c)>>_vars)

\* one connection, whose agents ask for one result each
InitLive == InitWith({"c1"}, SearchQueries, {"none"}, {FALSE}) /\ maxResults = 1

\* the served application under the scheduling of the event loop
SpecLive == InitLive /\ [][Next]_vars /\ HandlerFairness("c1")

\* C40: every invocation of handle_search_start eventually emits exactly
\* one terminal event for its session, search_complete or search_error,
\* never both and never neither, whichever of the cache, database, workflow
\* or send steps fails; and it emits no search_progress event after the
\* terminal event. An event is emitted when the handler hands it to the
\* connection manager, whose send_to_user keeps a failed send to itself.
C40_ExactlyOneTerminalEvent ==
    /\ \A c \in AllConns :
           Invoked(c) ~> (~Invoked(c) /\ Cardinality(Terminals(c)) = 1)
    /\ [](\A c \in AllConns :
              /\ Cardinality(Terminals(c)) <= 1
              /\ ~Invoked(c) /\ pc[c] # "new" => Cardinality(Terminals(c)) = 1
              /\ NoProgressAfterTerminal(c))

\* the session update failed after the workflow had run: the handler ended
\* with search_error as its only terminal event, after two progress events
C40_Witness ==
    /\ pc["c1"] = "listening"
    /\ Len(emitted["c1"]) >= 3
    /\ emitted["c1"][1].type = "search_progress"
    /\ emitted["c1"][2].type = "search_progress"
    /\ emitted["c1"][3].type = "search_error"
    /\ Terminals("c1") = {3}

====
